---- MODULE Spec2Model ----
(***************************************************************************)
(* Keyword clustering of orbiseo: generateKeywordEmbeddings feeding        *)
(* clusterKeywordsByIntent (K-Means over the embeddings, then one naming   *)
(* call per cluster).                                                      *)
(*                                                                         *)
(* Numbers.  Input coordinates are small integers.  A centroid is kept as  *)
(* a vector of integer numerators over one common denominator (the number  *)
(* of points averaged), so means and squared distances are exact           *)
(* rationals; distances are compared through their squares.  A coordinate  *)
(* that JavaScript computes as NaN (undefined + number, in the sums of a   *)
(* cluster holding a point longer than embeddings[0]) is recorded in the   *)
(* vector's nan set.                                                       *)
(*                                                                         *)
(* Strings.  A keyword is an atomic string; a label is a sequence of       *)
(* tokens, so that concatenation (the "Topic: " fallback) and the removal  *)
(* of double quotes are computed on the sequence.                          *)
(*                                                                         *)
(* Around the flow.  kmeans and euclideanDistance are also called on their *)
(* own; upsertKeywordsToVectorDatabase, queryVectorDatabaseSemantically,   *)
(* the useRecaptcha hook, the search form that reads it and the server     *)
(* actions of page.tsx each have their own specification.  An invocation   *)
(* of one of them records the calls it makes to its collaborators (the     *)
(* embedding flow, the index, grecaptcha, onSearch, fetch) in calls and    *)
(* what it hands back in result.                                           *)
(***************************************************************************)
EXTENDS Integers, Sequences, FiniteSets, TLC

\* ---------------------------------------------------------------- bounds
MaxKeywords == 3        \* longest keyword list passed in
MaxEmbeddings == 3      \* longest embeddings list passed in
MaxBatch == 2           \* longest keyword list sent through generateKeywordEmbeddings
MaxNonPositive == 2     \* how many clusterCounts below 1 are passed in (0, -1)
MaxClusterCount == 3    \* largest clusterCount passed in with any keyword list
MaxDim == 2             \* longest vector handed to euclideanDistance on its own
MaxMatches == 2         \* most matches in a response of index.query
MaxExecutes == 3        \* calls of grecaptcha.execute followed on one page

\* ------------------------------------------------------- program constants
maxIterations == 100
ToleranceInverse == 10000   \* 1e-4 = 1 / ToleranceInverse

\* ------------------------------------------------------------ input values
Keywords == {"a", "b"}
UNDEFINED == "<undefined>"     \* keywords[i] for i beyond the end of the array
QUOTE == "\""
TOPIC == "Topic: "

\* vectors the embedding model returns and the caller passes on or supplies;
\* the empty vector enters as the placeholder of a failed embedding call
EmbeddingValues == {<<0>>, <<1>>, <<3>>}
\* raw texts the naming model may return
NamerOutputs == {<<"X">>, <<QUOTE, "X", QUOTE>>, <<TOPIC, "a">>}

SeqsUpTo(S, n) == UNION {[1..m -> S] : m \in 0..n}
\* the keyword lists tried: every length up to MaxKeywords, with and without
\* repeated keywords, the "a"s first
KeywordLists ==
  {kw \in SeqsUpTo(Keywords, MaxKeywords) :
     \A i, j \in DOMAIN kw : (i < j /\ kw[i] = "b") => kw[j] = "b"}
\* the counts tried with a keyword list: all up to MaxClusterCount, and a
\* count far above it with a list of at most one keyword
ClusterCounts(kw) ==
  ((1 - MaxNonPositive)..MaxClusterCount)
    \cup (IF Len(kw) <= 1 THEN {MaxClusterCount + 2} ELSE {})

Min(x, y) == IF x < y THEN x ELSE y
Range(s) == {s[i] : i \in DOMAIN s}

RECURSIVE SumOver(_, _)
SumOver(S, f) ==
  IF S = {} THEN 0
  ELSE LET x == CHOOSE y \in S : TRUE IN f[x] + SumOver(S \ {x}, f)

\* ------------------------------------------------------------------ vectors
\* the vector num[d] / den, with the coordinates in nan being NaN
Vec(num, den, nan) == [num |-> num, den |-> den, nan |-> nan]
Point(e) == Vec(e, 1, {})

\* a distance: Infinity, NaN, or sqrt(num / den)
Infinity == [kind |-> "inf", num |-> 0, den |-> 1]
NaNDist == [kind |-> "nan", num |-> 0, den |-> 1]
Finite(n, d) == [kind |-> "fin", num |-> n, den |-> d]

\* mutant: the differences are summed without being squared
euclideanDistance_NoSquare(a, b) ==
  IF Len(a.num) # Len(b.num) THEN Infinity
  ELSE IF a.nan \cup b.nan # {} THEN NaNDist
  ELSE LET sq == [d \in DOMAIN a.num |-> a.num[d] * b.den - b.num[d] * a.den]
       IN Finite(SumOver(DOMAIN a.num, sq), (a.den * b.den) * (a.den * b.den))

euclideanDistance(a, b) ==
  IF Len(a.num) # Len(b.num) THEN Infinity
  ELSE IF a.nan \cup b.nan # {} THEN NaNDist
  ELSE LET sq == [d \in DOMAIN a.num |->
                    (a.num[d] * b.den - b.num[d] * a.den)
                      * (a.num[d] * b.den - b.num[d] * a.den)]
       IN Finite(SumOver(DOMAIN a.num, sq), (a.den * b.den) * (a.den * b.den))

\* x < y on JavaScript numbers (false whenever a NaN is involved)
LessThan(x, y) ==
  /\ x.kind = "fin"
  /\ \/ y.kind = "inf"
     \/ y.kind = "fin" /\ x.num * y.den < y.num * x.den

\* x > 1e-4:  sqrt(num/den) > 1/T  <=>  num * T * T > den
\*                                 <=>  num > (den \div T) \div T
ExceedsTolerance(x) ==
  \/ x.kind = "inf"
  \/ x.kind = "fin" /\ x.num > (x.den \div ToleranceInverse) \div ToleranceInverse

\* ------------------------------------------------------------------- state
VARIABLES
  pc,              \* position of the invocation
  keywords,        \* input.keywords
  embeddings,      \* input.embeddings (or the list generateKeywordEmbeddings builds)
  clusterCount,    \* input.clusterCount
  providerFailed,  \* positions whose embedding-model output was not an array
  k,               \* kmeans: effective cluster count
  centroids,       \* kmeans: centroids[j + 1] is the centroid of cluster j
  assignments,     \* kmeans: assignments[i] is the cluster index of point i
  iter,            \* kmeans: loop counter
  assignSteps,     \* kmeans: rounds of the loop entered (Assign steps run)
  clusterOrder,    \* key order of nonEmptyClusters (cluster indices)
  clusterResults,  \* nonEmptyClusters: cluster index -> member keywords
  clusterNames,    \* nameClustersTool: cluster index -> label
  nameIdx,         \* nameClustersTool: position in clusterOrder
  generated,       \* what each ai.generate call of the tool came back with
  finalResults,    \* the mapping label -> member keywords
  outcome,         \* "pending", "returned" or "raised"
  kmeansCalls,     \* number of calls of kmeans
  namingCalls,     \* number of ai.generate calls issued by nameClustersTool
  other,           \* the locals of a second invocation while it is suspended
  result,          \* what a call of one of the service functions gave its caller
  calls,           \* the calls the running invocation made to its collaborators
  vecA,            \* euclideanDistance: argument a
  vecB,            \* euclideanDistance: argument b
  query,           \* input.query / the form's query state
  queryResponse,   \* queryVectorDatabaseSemantically: what index.query resolved to
  siteKey,         \* process.env.NEXT_PUBLIC_RECAPTCHA_SITE_KEY
  grecaptcha,      \* window.grecaptcha: "absent" or "loaded"
  effect,          \* useRecaptcha: progress of the effect (lines 25-49)
  readyCallbacks,  \* callbacks handed to grecaptcha.ready and not yet run
  isReady,         \* useRecaptcha: isReady state
  error,           \* useRecaptcha: error state
  isLoading,       \* SearchFormWithRecaptcha: isLoading state
  toasts,          \* SearchFormWithRecaptcha: titles of the toasts shown by a submit
  serverAction,    \* which server action of page.tsx is running
  formData         \* the fields of the FormData handed to the server action

vars == <<pc, keywords, embeddings, clusterCount, providerFailed, k, centroids,
          assignments, iter, assignSteps, clusterOrder, clusterResults, clusterNames,
          nameIdx, generated, finalResults, outcome, kmeansCalls, namingCalls,
          other, result, calls, vecA, vecB, query, queryResponse, siteKey, grecaptcha,
          effect, readyCallbacks, isReady, error, isLoading, toasts, serverAction,
          formData>>

inputVars == <<keywords, embeddings, clusterCount, providerFailed>>
kmeansVars == <<k, centroids, assignments, iter, assignSteps>>
namingVars == <<clusterOrder, clusterResults, clusterNames, nameIdx, generated>>
distanceVars == <<vecA, vecB>>
recaptchaVars == <<siteKey, grecaptcha, effect, readyCallbacks, isReady, error>>
formVars == <<isLoading, toasts>>
actionVars == <<serverAction, formData>>
\* the locals of clusterKeywordsByIntent, which no other function touches
clusteringVars == <<clusterCount, providerFailed, kmeansVars, namingVars, finalResults,
                    outcome, kmeansCalls, namingCalls, other>>
\* the state of the functions around the clustering flow
serviceVars == <<result, calls, distanceVars, query, queryResponse, recaptchaVars,
                 formVars, actionVars>>

EmptyMapping == << >>

\* the locals of an invocation that has not run yet, at position p
FreshLocals(p, cc) ==
  [pc |-> p, clusterCount |-> cc, k |-> 0, centroids |-> << >>,
   assignments |-> << >>, iter |-> 0, assignSteps |-> 0, clusterOrder |-> << >>,
   clusterResults |-> << >>, clusterNames |-> << >>, nameIdx |-> 1,
   generated |-> << >>, finalResults |-> EmptyMapping, outcome |-> "pending",
   kmeansCalls |-> 0, namingCalls |-> 0]

\* the locals of the invocation that is running
Current ==
  [pc |-> pc, clusterCount |-> clusterCount, k |-> k, centroids |-> centroids,
   assignments |-> assignments, iter |-> iter, assignSteps |-> assignSteps,
   clusterOrder |-> clusterOrder, clusterResults |-> clusterResults,
   clusterNames |-> clusterNames, nameIdx |-> nameIdx, generated |-> generated,
   finalResults |-> finalResults, outcome |-> outcome,
   kmeansCalls |-> kmeansCalls, namingCalls |-> namingCalls]

NULL == "<null>"                      \* JavaScript null / undefined
NoResult == [kind |-> "none"]
ReturnValue(v) == [kind |-> "returned", value |-> v]
RaisedError(m) == [kind |-> "raised", message |-> m]

\* a call to a collaborator: in flight, resolved or rejected
Pending(callee) == [to |-> callee, outcome |-> "pending"]
\* the last call of the list gets its outcome
Settle(cs, o) == [cs EXCEPT ![Len(cs)].outcome = o]
Callees(cs) == {cs[i].to : i \in DOMAIN cs}

FlowInit ==
  /\ pc = "idle"
  /\ keywords = << >>
  /\ embeddings = << >>
  /\ clusterCount = 1
  /\ providerFailed = {}
  /\ k = 0
  /\ centroids = << >>
  /\ assignments = << >>
  /\ iter = 0
  /\ assignSteps = 0
  /\ clusterOrder = << >>
  /\ clusterResults = << >>
  /\ clusterNames = << >>
  /\ nameIdx = 1
  /\ generated = << >>
  /\ finalResults = EmptyMapping
  /\ outcome = "pending"
  /\ kmeansCalls = 0
  /\ namingCalls = 0
  /\ other = FreshLocals("absent", 1)

\* no service function has been called
CallsInit ==
  /\ result = NoResult
  /\ calls = << >>
  /\ query = << >>
  /\ queryResponse = NULL
  /\ isLoading = FALSE
  /\ toasts = << >>
  /\ serverAction = NULL
  /\ formData = [input |-> NULL, uid |-> NULL]

\* a page on which the Recaptcha component has not been mounted
NoRecaptcha ==
  /\ siteKey = NULL
  /\ grecaptcha = "absent"
  /\ effect = "notRun"
  /\ readyCallbacks = 0
  /\ isReady = FALSE
  /\ error = NULL

Init ==
  /\ FlowInit
  /\ CallsInit
  /\ NoRecaptcha
  /\ vecA = << >>
  /\ vecB = << >>

\* ------------------------------------------------- entry of the invocation
\* clusterKeywordsByIntent called with a keywords and an embeddings array
CallCluster ==
  /\ pc = "idle"
  /\ \E kw \in KeywordLists,
        em \in SeqsUpTo(EmbeddingValues, MaxEmbeddings) :
     \E cc \in ClusterCounts(kw) :
       /\ keywords' = kw
       /\ embeddings' = em
       /\ clusterCount' = cc
  /\ pc' = "flow"
  /\ UNCHANGED <<serviceVars, other, providerFailed, kmeansVars, namingVars, finalResults, outcome,
                 kmeansCalls, namingCalls>>

\* generateKeywordEmbeddings called first; its result is then clustered
CallGenerate ==
  /\ pc = "idle"
  /\ \E kw \in {l \in KeywordLists : Len(l) <= MaxBatch} :
     \E cc \in ClusterCounts(kw) :
       /\ keywords' = kw
       /\ clusterCount' = cc
  /\ embeddings' = << >>
  /\ pc' = "embedding"
  /\ UNCHANGED <<serviceVars, other, providerFailed, kmeansVars, namingVars, finalResults, outcome,
                 kmeansCalls, namingCalls>>

\* one round of the loop of generateKeywordEmbeddingsFlow: the model returns
\* an array, returns something that is not an array, or ai.generate throws
EmbedKeyword ==
  /\ pc = "embedding"
  /\ Len(embeddings) < Len(keywords)
  /\ \/ \E v \in EmbeddingValues :
          /\ embeddings' = Append(embeddings, v)
          /\ UNCHANGED <<providerFailed, pc, outcome>>
     \/ /\ embeddings' = Append(embeddings, << >>)
        /\ providerFailed' = providerFailed \cup {Len(embeddings) + 1}
        /\ UNCHANGED <<pc, outcome>>
     \/ /\ pc' = "embedFailed"
        /\ outcome' = "raised"
        /\ UNCHANGED <<embeddings, providerFailed>>
  /\ UNCHANGED <<serviceVars, other, keywords, clusterCount, kmeansVars, namingVars, finalResults,
                 kmeansCalls, namingCalls>>

\* generateKeywordEmbeddingsFlow returns {embeddings}, one entry per keyword,
\* which is handed to clusterKeywordsByIntent together with the keywords
EmbedReturn ==
  /\ pc = "embedding"
  /\ Len(embeddings) = Len(keywords)
  /\ pc' = "flow"
  /\ UNCHANGED <<serviceVars, other, inputVars, kmeansVars, namingVars, finalResults, outcome,
                 kmeansCalls, namingCalls>>

\* ClusterKeywordsByIntentInputSchema: clusterCount is an integer >= 1
\* (keywords and embeddings are arrays of strings / of number arrays here)
InputSchemaAccepts == clusterCount >= 1

Return(mapping) ==
  /\ pc' = "done"
  /\ outcome' = "returned"
  /\ finalResults' = mapping

Raise ==
  /\ pc' = "done"
  /\ outcome' = "raised"
  /\ UNCHANGED finalResults

\* mutant: only the keywords are tested
InputsEmpty_KeywordsOnly == Len(keywords) = 0

\* !keywords || keywords.length === 0 || !embeddings || embeddings.length === 0
InputsEmpty == Len(keywords) = 0 \/ Len(embeddings) = 0

\* Math.min(clusterCount, keywords.length)
adjustedClusterCount == Min(clusterCount, Len(keywords))

\* clusterKeywordsByIntentFlow up to the call of kmeans
FlowEntry ==
  /\ pc = "flow"
  /\ IF ~InputSchemaAccepts THEN Raise
     ELSE IF InputsEmpty THEN Return(EmptyMapping)
     ELSE IF adjustedClusterCount <= 0 THEN Return(EmptyMapping)
     ELSE /\ pc' = "kmeans"
          /\ UNCHANGED <<finalResults, outcome>>
  /\ UNCHANGED <<serviceVars, other, inputVars, kmeansVars, namingVars, kmeansCalls, namingCalls>>

\* ------------------------------------------------------------------ kmeans
\* the distinct embeddings (uniqueEmbeddings, compared by their JSON text)
UniqueEmbeddings(embs) == Range(embs)

\* mutant: takes random picks, which may repeat, instead of a shuffle
initializeCentroids_WithReplacement(embs, kk) ==
  [1..Min(Cardinality(UniqueEmbeddings(embs)), kk) -> UniqueEmbeddings(embs)]

\* mutant: the whole shuffle is returned, not its first `take` entries
initializeCentroids_WholeShuffle(embs, kk) ==
  {c \in [1..Cardinality(UniqueEmbeddings(embs)) -> UniqueEmbeddings(embs)] :
     \A i, j \in DOMAIN c : i # j => c[i] # c[j]}

\* initializeCentroids: the first min(#unique, kk) entries of a shuffle of the
\* unique embeddings, i.e. any duplicate-free list of that length
initializeCentroids(embs, kk) ==
  LET take == Min(Cardinality(UniqueEmbeddings(embs)), kk)
  IN {c \in [1..take -> UniqueEmbeddings(embs)] :
        \A i, j \in 1..take : i # j => c[i] # c[j]}

Zeros(n) == [i \in 1..n |-> 0]

\* mutant: point i goes to cluster i + 1
Identity_OneBased(n) == [i \in 1..n |-> i]

Identity(n) == [i \in 1..n |-> i - 1]

\* kmeans before its loop: the early returns and the initial centroids
KmeansStart(embs, kk) ==
  /\ kmeansCalls' = kmeansCalls + 1
  /\ assignSteps' = 0
  /\ IF Len(embs) = 0 \/ kk = 0
     THEN /\ assignments' = << >>
          /\ pc' = "group"
          /\ UNCHANGED <<k, centroids, iter>>
     ELSE IF Len(embs) < kk
     THEN /\ assignments' = Identity(Len(embs))
          /\ pc' = "group"
          /\ UNCHANGED <<k, centroids, iter>>
     ELSE \E init \in initializeCentroids(embs, kk) :
            /\ centroids' = [j \in DOMAIN init |-> Point(init[j])]
            /\ k' = Min(kk, Len(init))
            /\ assignments' = Zeros(Len(embs))
            /\ iter' = 0
            /\ pc' = IF Len(init) = 0 THEN "group" ELSE "assign"

\* kmeans(embeddings, adjustedClusterCount), called by the flow
KmeansEntry ==
  /\ pc = "kmeans"
  /\ KmeansStart(embeddings, adjustedClusterCount)
  /\ UNCHANGED <<serviceVars, other, inputVars, namingVars, finalResults, outcome, namingCalls>>

\* x === y on JavaScript numbers (false whenever a NaN is involved)
SameDistance(x, y) ==
  \/ x.kind = "inf" /\ y.kind = "inf"
  \/ x.kind = "fin" /\ y.kind = "fin" /\ x.num * y.den = y.num * x.den

\* mutant: the index recorded is j + 1
RECURSIVE Closest_OneBased(_, _, _, _, _)
Closest_OneBased(p, cents, j, minDistance, closestCentroidIndex) ==
  IF j > Len(cents) THEN closestCentroidIndex
  ELSE LET distance == euclideanDistance(Point(p), cents[j])
       IN IF LessThan(distance, minDistance)
          THEN Closest_OneBased(p, cents, j + 1, distance, j)
          ELSE Closest_OneBased(p, cents, j + 1, minDistance, closestCentroidIndex)

\* mutant: `distance <= minDistance`, the last centroid wins a tie
RECURSIVE Closest_LastOnTies(_, _, _, _, _)
Closest_LastOnTies(p, cents, j, minDistance, closestCentroidIndex) ==
  IF j > Len(cents) THEN closestCentroidIndex
  ELSE LET distance == euclideanDistance(Point(p), cents[j])
       IN IF LessThan(distance, minDistance) \/ SameDistance(distance, minDistance)
          THEN Closest_LastOnTies(p, cents, j + 1, distance, j - 1)
          ELSE Closest_LastOnTies(p, cents, j + 1, minDistance, closestCentroidIndex)

\* the inner loop over the centroids: the first centroid at the smallest
\* distance, index 0 when no distance is below Infinity
RECURSIVE Closest(_, _, _, _, _)
Closest(p, cents, j, minDistance, closestCentroidIndex) ==
  IF j > Len(cents) THEN closestCentroidIndex
  ELSE LET distance == euclideanDistance(Point(p), cents[j])
       IN IF LessThan(distance, minDistance)
          THEN Closest(p, cents, j + 1, distance, j - 1)
          ELSE Closest(p, cents, j + 1, minDistance, closestCentroidIndex)

ClosestCentroid(p, cents) == Closest(p, cents, 1, Infinity, 0)

\* mutant: no `if (!changed) break`
Assign_AlwaysUpdates ==
  /\ pc = "assign"
  /\ assignments' = [i \in DOMAIN embeddings |-> ClosestCentroid(embeddings[i], centroids)]
  /\ assignSteps' = assignSteps + 1
  /\ pc' = "update"
  /\ UNCHANGED <<serviceVars, other, inputVars, k, centroids, iter, namingVars, finalResults, outcome,
                 kmeansCalls, namingCalls>>

\* the Assign step; the loop ends when no assignment changed
Assign ==
  /\ pc = "assign"
  /\ LET new == [i \in DOMAIN embeddings |-> ClosestCentroid(embeddings[i], centroids)]
         changed == \E i \in DOMAIN embeddings : assignments[i] # new[i]
     IN /\ assignments' = new
        /\ assignSteps' = assignSteps + 1
        /\ pc' = IF changed THEN "update" ELSE "group"
  /\ UNCHANGED <<serviceVars, other, inputVars, k, centroids, iter, namingVars, finalResults, outcome,
                 kmeansCalls, namingCalls>>

MembersOf(asg, c) == {i \in DOMAIN asg : asg[i] = c}

\* sums[c] / counts[c]: sums[c] starts as embeddings[0].length zeros; adding
\* a coordinate beyond that length to it yields NaN
Mean(embs, asg, c) ==
  LET members == MembersOf(asg, c)
      d0 == Len(embs[1])
      longest == CHOOSE m \in {Len(embs[i]) : i \in members} \cup {d0} :
                   \A i \in members : Len(embs[i]) <= m /\ d0 <= m
      coord(d) == SumOver({i \in members : Len(embs[i]) >= d},
                          [i \in members |-> IF Len(embs[i]) >= d THEN embs[i][d] ELSE 0])
  IN Vec([d \in 1..longest |-> IF d <= d0 THEN coord(d) ELSE 0],
         Cardinality(members),
         {d \in 1..longest : d > d0})

\* mutant: `while (true)` in place of the bounded for loop
Update_NoLimit ==
  /\ pc = "update"
  /\ LET empty == {c \in 0..(k - 1) : MembersOf(assignments, c) = {}}
         moved == {c \in (0..(k - 1)) \ empty :
                     ExceedsTolerance(euclideanDistance(Mean(embeddings, assignments, c),
                                                        centroids[c + 1]))}
         converged == empty = {} /\ moved = {}
     IN \E seed \in [empty -> DOMAIN embeddings] :
          /\ centroids' = [j \in 1..k |->
                             IF (j - 1) \in empty THEN Point(embeddings[seed[j - 1]])
                             ELSE Mean(embeddings, assignments, j - 1)]
          /\ iter' = iter + 1
          /\ pc' = IF converged THEN "group" ELSE "assign"
  /\ UNCHANGED <<serviceVars, other, inputVars, k, assignments, assignSteps, namingVars, finalResults,
                 outcome, kmeansCalls, namingCalls>>

\* mutant: an emptied cluster keeps its previous centroid
Update_KeepsOld ==
  /\ pc = "update"
  /\ LET empty == {c \in 0..(k - 1) : MembersOf(assignments, c) = {}}
         moved == {c \in (0..(k - 1)) \ empty :
                     ExceedsTolerance(euclideanDistance(Mean(embeddings, assignments, c),
                                                        centroids[c + 1]))}
         converged == empty = {} /\ moved = {}
     IN \E seed \in [empty -> DOMAIN embeddings] :
          /\ centroids' = [j \in 1..k |->
                             IF (j - 1) \in empty THEN centroids[j]
                             ELSE Mean(embeddings, assignments, j - 1)]
          /\ iter' = iter + 1
          /\ pc' = IF converged \/ iter + 1 >= maxIterations THEN "group" ELSE "assign"
  /\ UNCHANGED <<serviceVars, other, inputVars, k, assignments, assignSteps, namingVars, finalResults,
                 outcome, kmeansCalls, namingCalls>>

\* mutant: re-seeding leaves `converged` as it is
Update_ReseedConverges ==
  /\ pc = "update"
  /\ LET empty == {c \in 0..(k - 1) : MembersOf(assignments, c) = {}}
         moved == {c \in (0..(k - 1)) \ empty :
                     ExceedsTolerance(euclideanDistance(Mean(embeddings, assignments, c),
                                                        centroids[c + 1]))}
         converged == moved = {}
     IN \E seed \in [empty -> DOMAIN embeddings] :
          /\ centroids' = [j \in 1..k |->
                             IF (j - 1) \in empty THEN Point(embeddings[seed[j - 1]])
                             ELSE Mean(embeddings, assignments, j - 1)]
          /\ iter' = iter + 1
          /\ pc' = IF converged \/ iter + 1 >= maxIterations THEN "group" ELSE "assign"
  /\ UNCHANGED <<serviceVars, other, inputVars, k, assignments, assignSteps, namingVars, finalResults,
                 outcome, kmeansCalls, namingCalls>>

\* the Update step; an empty cluster is re-seeded with a random input point
Update ==
  /\ pc = "update"
  /\ LET empty == {c \in 0..(k - 1) : MembersOf(assignments, c) = {}}
         moved == {c \in (0..(k - 1)) \ empty :
                     ExceedsTolerance(euclideanDistance(Mean(embeddings, assignments, c),
                                                        centroids[c + 1]))}
         converged == empty = {} /\ moved = {}
     IN \E seed \in [empty -> DOMAIN embeddings] :
          /\ centroids' = [j \in 1..k |->
                             IF (j - 1) \in empty THEN Point(embeddings[seed[j - 1]])
                             ELSE Mean(embeddings, assignments, j - 1)]
          /\ iter' = iter + 1
          /\ pc' = IF converged \/ iter + 1 >= maxIterations THEN "group" ELSE "assign"
  /\ UNCHANGED <<serviceVars, other, inputVars, k, assignments, assignSteps, namingVars, finalResults,
                 outcome, kmeansCalls, namingCalls>>

\* ---------------------------------------------------- grouping and naming
KeywordAt(i) == IF i \in DOMAIN keywords THEN keywords[i] ELSE UNDEFINED

\* clusterResults after the first n assignments: the clusters in the order
\* of their first member, each with its keywords in input order
RECURSIVE GroupOrder(_, _)
GroupOrder(asg, n) ==
  IF n = 0 THEN << >>
  ELSE LET before == GroupOrder(asg, n - 1)
       IN IF asg[n] \in Range(before) THEN before ELSE Append(before, asg[n])

\* mutant: unshift instead of push
RECURSIVE GroupMembers_Prepend(_, _, _)
GroupMembers_Prepend(asg, c, n) ==
  IF n = 0 THEN << >>
  ELSE IF asg[n] = c THEN <<KeywordAt(n)>> \o GroupMembers_Prepend(asg, c, n - 1)
  ELSE GroupMembers_Prepend(asg, c, n - 1)

\* mutant: the grouping loop starts at the second assignment
RECURSIVE GroupMembers_SkipFirst(_, _, _)
GroupMembers_SkipFirst(asg, c, n) ==
  IF n <= 1 THEN << >>
  ELSE IF asg[n] = c THEN Append(GroupMembers_SkipFirst(asg, c, n - 1), KeywordAt(n))
  ELSE GroupMembers_SkipFirst(asg, c, n - 1)

RECURSIVE GroupMembers(_, _, _)
GroupMembers(asg, c, n) ==
  IF n = 0 THEN << >>
  ELSE IF asg[n] = c THEN Append(GroupMembers(asg, c, n - 1), KeywordAt(n))
  ELSE GroupMembers(asg, c, n - 1)

\* the z.array(z.string()) values of the tool's input schema
ToolSchemaAccepts(clusters) ==
  \A c \in DOMAIN clusters : \A i \in DOMAIN clusters[c] : clusters[c][i] # UNDEFINED

\* clusterKeywordsByIntentFlow from the grouping to the call of the tool
Group ==
  /\ pc = "group"
  /\ LET order == GroupOrder(assignments, Len(assignments))
         results == [c \in Range(order) |-> GroupMembers(assignments, c, Len(assignments))]
         nonEmptyOrder == SelectSeq(order, LAMBDA c : Len(results[c]) > 0)
         nonEmptyClusters == [c \in Range(nonEmptyOrder) |-> results[c]]
     IN IF Len(nonEmptyOrder) = 0
        THEN /\ Return(EmptyMapping)
             /\ UNCHANGED namingVars
        ELSE IF ~ToolSchemaAccepts(nonEmptyClusters)
        THEN /\ Raise
             /\ UNCHANGED namingVars
        ELSE /\ clusterOrder' = nonEmptyOrder
             /\ clusterResults' = nonEmptyClusters
             /\ clusterNames' = << >>
             /\ nameIdx' = 1
             /\ generated' = << >>
             /\ pc' = "nameCall"
             /\ UNCHANGED <<finalResults, outcome>>
  \* the locals of kmeans are gone once its result is consumed
  /\ k' = 0
  /\ centroids' = << >>
  /\ iter' = 0
  /\ assignSteps' = 0
  /\ UNCHANGED <<serviceVars, other, inputVars, assignments, kmeansCalls, namingCalls>>

\* output.replace(/"/g, '')
RemoveQuotes(text) == SelectSeq(text, LAMBDA ch : ch # QUOTE)

\* `Topic: ${keywords[0]}`
FallbackName(members) == <<TOPIC, members[1]>>

SetName(names, c, label) ==
  [x \in DOMAIN names \cup {c} |-> IF x = c THEN label ELSE names[x]]

\* mutant: an existing key is kept
RECURSIVE BuildFinal_FirstWins(_, _, _, _)
BuildFinal_FirstWins(order, names, clusters, n) ==
  IF n = 0 THEN EmptyMapping
  ELSE LET before == BuildFinal_FirstWins(order, names, clusters, n - 1)
           c == order[n]
       IN IF c \in DOMAIN clusters /\ names[c] \notin DOMAIN before
          THEN [l \in DOMAIN before \cup {names[c]} |->
                  IF l = names[c] THEN clusters[c] ELSE before[l]]
          ELSE before

\* finalResults after the first n clusters of namedClusters were copied
RECURSIVE BuildFinal(_, _, _, _)
BuildFinal(order, names, clusters, n) ==
  IF n = 0 THEN EmptyMapping
  ELSE LET before == BuildFinal(order, names, clusters, n - 1)
           c == order[n]
       IN IF c \in DOMAIN clusters
          THEN [l \in DOMAIN before \cup {names[c]} |->
                  IF l = names[c] THEN clusters[c] ELSE before[l]]
          ELSE before

\* mutant: ai.generate is called without `await`; the loop goes on at once
\* with the fallback label
NameCall_NoAwait ==
  /\ pc = "nameCall"
  /\ IF nameIdx > Len(clusterOrder)
     THEN /\ Return(BuildFinal(clusterOrder, clusterNames, clusterResults,
                               Len(clusterOrder)))
          /\ UNCHANGED <<nameIdx, namingCalls, clusterNames>>
     ELSE /\ namingCalls' = namingCalls + 1
          /\ clusterNames' = SetName(clusterNames, clusterOrder[nameIdx],
                                     FallbackName(clusterResults[clusterOrder[nameIdx]]))
          /\ nameIdx' = nameIdx + 1
          /\ UNCHANGED <<pc, outcome, finalResults>>
  /\ UNCHANGED <<serviceVars, other, inputVars, kmeansVars, clusterOrder, clusterResults, generated,
                 kmeansCalls>>

\* nameClustersTool: the head of its loop.  A cluster without keywords is
\* skipped, otherwise ai.generate is called; after the last cluster the tool
\* returns and the flow builds and returns finalResults
NameCall ==
  /\ pc = "nameCall"
  /\ IF nameIdx > Len(clusterOrder)
     THEN /\ Return(BuildFinal(clusterOrder, clusterNames, clusterResults,
                               Len(clusterOrder)))
          /\ UNCHANGED <<nameIdx, namingCalls>>
     ELSE IF Len(clusterResults[clusterOrder[nameIdx]]) = 0
     THEN /\ nameIdx' = nameIdx + 1
          /\ UNCHANGED <<pc, outcome, finalResults, namingCalls>>
     ELSE /\ namingCalls' = namingCalls + 1
          /\ pc' = "nameWait"
          /\ UNCHANGED <<nameIdx, outcome, finalResults>>
  /\ UNCHANGED <<serviceVars, other, inputVars, kmeansVars, clusterOrder, clusterResults, clusterNames,
                 generated, kmeansCalls>>

\* mutant: clusterNames is one object of the module, shared by all invocations
NameReturn_SharedNames ==
  /\ pc = "nameWait"
  /\ \E output \in NamerOutputs :
       /\ clusterNames' = SetName(clusterNames, clusterOrder[nameIdx], RemoveQuotes(output))
       /\ generated' = SetName(generated, clusterOrder[nameIdx], [ok |-> TRUE, text |-> output])
       /\ other' = [other EXCEPT !.clusterNames =
                      SetName(@, clusterOrder[nameIdx], RemoveQuotes(output))]
  /\ nameIdx' = nameIdx + 1
  /\ pc' = "nameCall"
  /\ UNCHANGED <<serviceVars, inputVars, kmeansVars, clusterOrder, clusterResults, finalResults,
                 outcome, kmeansCalls, namingCalls>>

\* ai.generate returned a text
NameReturn ==
  /\ pc = "nameWait"
  /\ \E output \in NamerOutputs :
       /\ clusterNames' = SetName(clusterNames, clusterOrder[nameIdx], RemoveQuotes(output))
       /\ generated' = SetName(generated, clusterOrder[nameIdx], [ok |-> TRUE, text |-> output])
  /\ nameIdx' = nameIdx + 1
  /\ pc' = "nameCall"
  /\ UNCHANGED <<serviceVars, other, inputVars, kmeansVars, clusterOrder, clusterResults, finalResults,
                 outcome, kmeansCalls, namingCalls>>

\* mutant: no catch block, the failure leaves the tool and the flow
NameFail_Rethrows ==
  /\ pc = "nameWait"
  /\ generated' = SetName(generated, clusterOrder[nameIdx], [ok |-> FALSE, text |-> << >>])
  /\ Raise
  /\ UNCHANGED <<serviceVars, other, inputVars, kmeansVars, clusterOrder, clusterResults, clusterNames,
                 nameIdx, kmeansCalls, namingCalls>>

\* ai.generate threw, or its output was not a string: the catch block
NameFail ==
  /\ pc = "nameWait"
  /\ clusterNames' = SetName(clusterNames, clusterOrder[nameIdx],
                             FallbackName(clusterResults[clusterOrder[nameIdx]]))
  /\ generated' = SetName(generated, clusterOrder[nameIdx], [ok |-> FALSE, text |-> << >>])
  /\ nameIdx' = nameIdx + 1
  /\ pc' = "nameCall"
  /\ UNCHANGED <<serviceVars, other, inputVars, kmeansVars, clusterOrder, clusterResults, finalResults,
                 outcome, kmeansCalls, namingCalls>>

Next ==
  \/ CallCluster
  \/ CallGenerate
  \/ EmbedKeyword
  \/ EmbedReturn
  \/ FlowEntry
  \/ KmeansEntry
  \/ Assign
  \/ Update
  \/ Group
  \/ NameCall
  \/ NameReturn
  \/ NameFail

Spec == Init /\ [][Next]_vars

\* ------------------------------------------- calls with richer point sets
\* four keywords whose embeddings are two pairs, the points of a pair at
\* distance 1 and the pairs at distance 10: on a line and in the plane
PairKeywords == <<"p1", "p2", "l1", "l2">>
PairLayouts ==
  {<<<<0>>, <<1>>, <<10>>, <<11>>>>,
   <<<<0, 0>>, <<0, 1>>, <<10, 0>>, <<10, 1>>>>}
\* five pairwise different points of the plane
FiveKeywords == <<"k1", "k2", "k3", "k4", "k5">>
FivePoints == <<<<0, 3>>, <<1, 0>>, <<2, 0>>, <<2, 3>>, <<1, 3>>>>
\* embeddings of different dimensions
RaggedKeywords == <<"k1", "k2", "k3">>
RaggedPoints == <<<<0>>, << >>, <<1>>>>

\* more embeddings than keywords
ShortKeywords == <<"k1">>
ShortPoints == <<<<0>>, <<1>>>>

PointInputs ==
  {[keywords |-> PairKeywords, embeddings |-> e] : e \in PairLayouts}
    \cup {[keywords |-> FiveKeywords, embeddings |-> FivePoints],
          [keywords |-> RaggedKeywords, embeddings |-> RaggedPoints],
          [keywords |-> ShortKeywords, embeddings |-> ShortPoints]}
PointCounts == {2, 3}

\* clusterKeywordsByIntent called with one of these inputs
CallPoints ==
  /\ pc = "idle"
  /\ \E in \in PointInputs, cc \in PointCounts :
       /\ keywords' = in.keywords
       /\ embeddings' = in.embeddings
       /\ clusterCount' = cc
  /\ pc' = "flow"
  /\ UNCHANGED <<serviceVars, other, providerFailed, kmeansVars, namingVars, finalResults, outcome,
                 kmeansCalls, namingCalls>>

PointsNext ==
  \/ CallPoints
  \/ FlowEntry
  \/ KmeansEntry
  \/ Assign
  \/ Update
  \/ Group
  \/ NameCall
  \/ NameReturn
  \/ NameFail

PointsSpec == Init /\ [][PointsNext]_vars

\* ------------------------------------------------ kmeans called by itself
\* the embeddings lists kmeans is called with
KmeansInputs ==
  SeqsUpTo(EmbeddingValues \cup {<< >>}, MaxEmbeddings)
    \cup {in.embeddings : in \in PointInputs}

\* kmeans(embeddings, k) with any k from 0 on; clusterCount holds the argument k
CallKmeans ==
  /\ pc = "idle"
  /\ \E em \in KmeansInputs, kk \in 0..MaxClusterCount :
       /\ embeddings' = em
       /\ clusterCount' = kk
       /\ KmeansStart(em, kk)
  /\ UNCHANGED <<serviceVars, other, keywords, providerFailed, namingVars, finalResults, outcome,
                 namingCalls>>

\* `return assignments` (and the early returns) seen by the caller of kmeans
KmeansReturn ==
  /\ pc = "group"
  /\ pc' = "kmeansReturned"
  /\ UNCHANGED <<serviceVars, other, inputVars, kmeansVars, namingVars, finalResults, outcome,
                 kmeansCalls, namingCalls>>

KmeansNext ==
  \/ CallKmeans
  \/ Assign
  \/ Update
  \/ KmeansReturn

KmeansSpec == Init /\ [][KmeansNext]_vars

\* -------------------------------------- two invocations at the same time
\* the inputs handed to two concurrent invocations (the same arrays to both)
TwoCallInputs ==
  {[keywords |-> <<"a", "b">>, embeddings |-> <<<<0>>, <<3>>>>],
   [keywords |-> <<"a", "b">>, embeddings |-> <<<<1>>, <<1>>>>],
   [keywords |-> <<"a", "b", "b">>, embeddings |-> <<<<0>>, <<1>>, <<3>>>>],
   [keywords |-> <<"a">>, embeddings |-> <<<<0>>, <<1>>>>]}
TwoCallCounts == {1, 2}

\* clusterKeywordsByIntent is called twice before either call has finished
CallTwice ==
  /\ pc = "idle"
  /\ \E in \in TwoCallInputs, cc1 \in TwoCallCounts, cc2 \in TwoCallCounts :
       /\ keywords' = in.keywords
       /\ embeddings' = in.embeddings
       /\ clusterCount' = cc1
       /\ other' = FreshLocals("flow", cc2)
  /\ pc' = "flow"
  /\ UNCHANGED <<serviceVars, providerFailed, kmeansVars, namingVars, finalResults, outcome,
                 kmeansCalls, namingCalls>>

\* the running invocation is suspended at its await (or has finished) and the
\* event loop runs the other one, which has not started yet or whose naming
\* call has been answered
Switch ==
  /\ pc \in {"nameWait", "done"}
  /\ other.pc \in {"flow", "nameWait"}
  /\ other' = Current
  /\ pc' = other.pc
  /\ clusterCount' = other.clusterCount
  /\ k' = other.k
  /\ centroids' = other.centroids
  /\ assignments' = other.assignments
  /\ iter' = other.iter
  /\ assignSteps' = other.assignSteps
  /\ clusterOrder' = other.clusterOrder
  /\ clusterResults' = other.clusterResults
  /\ clusterNames' = other.clusterNames
  /\ nameIdx' = other.nameIdx
  /\ generated' = other.generated
  /\ finalResults' = other.finalResults
  /\ outcome' = other.outcome
  /\ kmeansCalls' = other.kmeansCalls
  /\ namingCalls' = other.namingCalls
  /\ UNCHANGED <<serviceVars, keywords, embeddings, providerFailed>>

TwoCallsNext ==
  \/ CallTwice
  \/ Switch
  \/ FlowEntry
  \/ KmeansEntry
  \/ Assign
  \/ Update
  \/ Group
  \/ NameCall
  \/ NameReturn
  \/ NameFail

TwoCallsSpec == Init /\ [][TwoCallsNext]_vars

\* ======================================= euclideanDistance called on its own
Coordinates == {-2, 0, 1, 3}
DistanceInputs == SeqsUpTo(Coordinates, MaxDim)

DistInit ==
  /\ FlowInit
  /\ CallsInit
  /\ NoRecaptcha
  /\ vecA \in DistanceInputs
  /\ vecB \in DistanceInputs

\* euclideanDistance applied to the two vectors in both orders, and to each
\* vector and itself
Measure ==
  /\ pc = "idle"
  /\ result' = ReturnValue([ab |-> euclideanDistance(Point(vecA), Point(vecB)),
                            ba |-> euclideanDistance(Point(vecB), Point(vecA)),
                            aa |-> euclideanDistance(Point(vecA), Point(vecA)),
                            bb |-> euclideanDistance(Point(vecB), Point(vecB))])
  /\ pc' = "measured"
  /\ UNCHANGED <<inputVars, kmeansVars, namingVars, finalResults, outcome, kmeansCalls,
                 namingCalls, other, calls, distanceVars, query, queryResponse,
                 recaptchaVars, formVars, actionVars>>

DistNext == Measure

DistSpec == DistInit /\ [][DistNext]_vars

\* ========================================= upsertKeywordsToVectorDatabase
\* messages of the errors a collaborator rejects with ("undefined": the
\* rejection carries no message and the template literal prints undefined)
ErrorMessages == {"timeout", "undefined"}

\* what generateKeywordEmbeddings may resolve to by its output schema
EmbeddingResults(n) == SeqsUpTo(EmbeddingValues \cup {<< >>}, n)

UPSERT_PREFIX == "Failed to upsert keywords: "
UPSERT_MISMATCH == "Failed to generate embeddings for all keywords."

\* the catch block of upsertKeywordsToVectorDatabase
UpsertCaught(message) ==
  /\ result' = ReturnValue([success |-> FALSE, error |-> <<UPSERT_PREFIX, message>>])
  /\ pc' = "upsertDone"

\* upsertKeywordsToVectorDatabase({keywords}) up to its first await
CallUpsert ==
  /\ pc = "idle"
  /\ \E kw \in KeywordLists :
       /\ keywords' = kw
       /\ IF Len(kw) = 0
          THEN /\ result' = ReturnValue([success |-> TRUE, upsertedCount |-> 0])
               /\ calls' = << >>
               /\ pc' = "upsertDone"
          ELSE /\ result' = NoResult
               /\ calls' = <<Pending("generateKeywordEmbeddings")>>
               /\ pc' = "upsertEmbedding"
  /\ embeddings' = << >>
  /\ UNCHANGED <<clusteringVars, distanceVars, query, queryResponse, recaptchaVars,
                 formVars, actionVars>>

\* mutant: the vectors are upserted whatever the number of embeddings
UpsertEmbedded_NoLengthCheck ==
  /\ pc = "upsertEmbedding"
  /\ \E em \in EmbeddingResults(MaxKeywords) :
       /\ embeddings' = em
       /\ calls' = Append(Settle(calls, "resolved"), Pending("index.upsert"))
       /\ pc' = "upsertIndex"
       /\ UNCHANGED result
  /\ UNCHANGED <<keywords, clusteringVars, distanceVars, query, queryResponse,
                 recaptchaVars, formVars, actionVars>>

\* generateKeywordEmbeddings resolves: the length check, then index.upsert
UpsertEmbedded ==
  /\ pc = "upsertEmbedding"
  /\ \E em \in EmbeddingResults(MaxKeywords) :
       /\ embeddings' = em
       /\ IF Len(em) # Len(keywords)
          THEN /\ calls' = Settle(calls, "resolved")
               /\ UpsertCaught(UPSERT_MISMATCH)
          ELSE /\ calls' = Append(Settle(calls, "resolved"), Pending("index.upsert"))
               /\ pc' = "upsertIndex"
               /\ UNCHANGED result
  /\ UNCHANGED <<keywords, clusteringVars, distanceVars, query, queryResponse,
                 recaptchaVars, formVars, actionVars>>

\* generateKeywordEmbeddings rejects
UpsertEmbedFails ==
  /\ pc = "upsertEmbedding"
  /\ calls' = Settle(calls, "rejected")
  /\ \E m \in ErrorMessages : UpsertCaught(m)
  /\ UNCHANGED <<keywords, embeddings, clusteringVars, distanceVars, query,
                 queryResponse, recaptchaVars, formVars, actionVars>>

\* index.upsert(vectors) resolves: upsertedCount is vectors.length, one
\* vector per keyword
UpsertIndexed ==
  /\ pc = "upsertIndex"
  /\ calls' = Settle(calls, "resolved")
  /\ result' = ReturnValue([success |-> TRUE, upsertedCount |-> Len(keywords)])
  /\ pc' = "upsertDone"
  /\ UNCHANGED <<keywords, embeddings, clusteringVars, distanceVars, query,
                 queryResponse, recaptchaVars, formVars, actionVars>>

\* index.upsert(vectors) rejects
UpsertIndexFails ==
  /\ pc = "upsertIndex"
  /\ calls' = Settle(calls, "rejected")
  /\ \E m \in ErrorMessages : UpsertCaught(m)
  /\ UNCHANGED <<keywords, embeddings, clusteringVars, distanceVars, query,
                 queryResponse, recaptchaVars, formVars, actionVars>>

UpsertNext ==
  \/ CallUpsert
  \/ UpsertEmbedded
  \/ UpsertEmbedFails
  \/ UpsertIndexed
  \/ UpsertIndexFails

UpsertSpec == Init /\ [][UpsertNext]_vars

\* ========================================= queryVectorDatabaseSemantically
Queries == {<< >>, <<" ">>, <<"s">>, <<" ", "s", " ">>}   \* strings, as characters

NO_METADATA == "<no metadata>"
\* a match, given by the text of its metadata (or by having no metadata)
Matches == {NO_METADATA, "", "a", "b"}
\* the responses of index.query: with or without a matches array
QueryResponses ==
  {[hasMatches |-> FALSE, matches |-> << >>]}
    \cup {[hasMatches |-> TRUE, matches |-> ms] : ms \in SeqsUpTo(Matches, MaxMatches)}

\* (match.metadata?.text as string) || ''
MatchText(match) == IF match = NO_METADATA THEN "" ELSE match

\* queryResponse.matches?.map(...) || []
ExtractMatches(ms) == [i \in 1..Len(ms) |-> MatchText(ms[i])]

QUERY_PREFIX == "Failed to query vector database: "
QUERY_NO_EMBEDDING == "Failed to generate a valid embedding for the query."
\* reading .length of undefined does not happen: `!queryEmbedding` is tested first

\* the catch block of queryVectorDatabaseSemantically
QueryCaught(message) ==
  /\ result' = RaisedError(<<QUERY_PREFIX, message>>)
  /\ pc' = "queryDone"

\* queryVectorDatabaseSemantically({query, topK}) up to its first await
CallQuery ==
  /\ pc = "idle"
  /\ \E q \in Queries : query' = q
  /\ calls' = <<Pending("generateKeywordEmbeddings")>>
  /\ result' = NoResult
  /\ embeddings' = << >>
  /\ queryResponse' = NULL
  /\ pc' = "queryEmbedding"
  /\ UNCHANGED <<keywords, clusteringVars, distanceVars, recaptchaVars, formVars,
                 actionVars>>

\* embeddingResult.embeddings[0] is an embedding with at least one number
ValidQueryEmbedding(em) == Len(em) > 0 /\ Len(em[1]) > 0

\* mutant: the index is queried with whatever the provider returned
QueryEmbedded_NoCheck ==
  /\ pc = "queryEmbedding"
  /\ \E em \in EmbeddingResults(1) :
       /\ embeddings' = em
       /\ calls' = Append(Settle(calls, "resolved"), Pending("index.query"))
       /\ pc' = "queryIndex"
       /\ UNCHANGED result
  /\ UNCHANGED <<keywords, query, queryResponse, clusteringVars, distanceVars,
                 recaptchaVars, formVars, actionVars>>

\* generateKeywordEmbeddings resolves: the check of the embedding, then
\* index.query
QueryEmbedded ==
  /\ pc = "queryEmbedding"
  /\ \E em \in EmbeddingResults(1) :
       /\ embeddings' = em
       /\ IF ~ValidQueryEmbedding(em)
          THEN /\ calls' = Settle(calls, "resolved")
               /\ QueryCaught(QUERY_NO_EMBEDDING)
          ELSE /\ calls' = Append(Settle(calls, "resolved"), Pending("index.query"))
               /\ pc' = "queryIndex"
               /\ UNCHANGED result
  /\ UNCHANGED <<keywords, query, queryResponse, clusteringVars, distanceVars,
                 recaptchaVars, formVars, actionVars>>

\* generateKeywordEmbeddings rejects
QueryEmbedFails ==
  /\ pc = "queryEmbedding"
  /\ calls' = Settle(calls, "rejected")
  /\ \E m \in ErrorMessages : QueryCaught(m)
  /\ UNCHANGED <<keywords, embeddings, query, queryResponse, clusteringVars,
                 distanceVars, recaptchaVars, formVars, actionVars>>

\* index.query resolves
QueryAnswered ==
  /\ pc = "queryIndex"
  /\ calls' = Settle(calls, "resolved")
  /\ \E r \in QueryResponses :
       /\ queryResponse' = r
       /\ result' = ReturnValue([matches |-> IF r.hasMatches
                                             THEN ExtractMatches(r.matches)
                                             ELSE << >>])
  /\ pc' = "queryDone"
  /\ UNCHANGED <<keywords, embeddings, query, clusteringVars, distanceVars,
                 recaptchaVars, formVars, actionVars>>

\* index.query rejects
QueryIndexFails ==
  /\ pc = "queryIndex"
  /\ calls' = Settle(calls, "rejected")
  /\ \E m \in ErrorMessages : QueryCaught(m)
  /\ UNCHANGED <<keywords, embeddings, query, queryResponse, clusteringVars,
                 distanceVars, recaptchaVars, formVars, actionVars>>

QueryNext ==
  \/ CallQuery
  \/ QueryEmbedded
  \/ QueryEmbedFails
  \/ QueryAnswered
  \/ QueryIndexFails

QuerySpec == Init /\ [][QueryNext]_vars

\* ============================================================ useRecaptcha
NOT_CONFIGURED == "reCAPTCHA site key not configured"
NOT_READY == "reCAPTCHA not ready"
EXECUTION_FAILED == "reCAPTCHA execution failed"

\* `!value` for a value that is a string, null or undefined
Missing(value) == value \in {NULL, ""}

SiteKeys == {NULL, "", "site-key"}
\* the action names executeRecaptcha is called with
RecaptchaActions == {"search", "login"}
\* what grecaptcha.execute resolves to
Tokens == {"", "token"}
\* what grecaptcha.execute rejects with: an Error, or some other value
Rejections == {[isError |-> TRUE, message |-> "timeout"], [isError |-> FALSE]}

\* the component renders for the first time: the environment has the site
\* key or not, the reCAPTCHA script has been loaded already or not
RecaptchaInit ==
  /\ FlowInit
  /\ CallsInit
  /\ vecA = << >>
  /\ vecB = << >>
  /\ siteKey \in SiteKeys
  /\ grecaptcha \in {"absent", "loaded"}
  /\ effect = "notRun"
  /\ readyCallbacks = 0
  /\ isReady = FALSE
  /\ error = NULL

\* the effect of lines 25-49, run after the first render
RunEffect ==
  /\ effect = "notRun"
  /\ IF Missing(siteKey)
     THEN /\ error' = NOT_CONFIGURED
          /\ effect' = "ended"
          /\ UNCHANGED readyCallbacks
     ELSE IF grecaptcha = "loaded"
     THEN /\ readyCallbacks' = readyCallbacks + 1
          /\ effect' = "ended"
          /\ UNCHANGED error
     ELSE /\ effect' = "polling"
          /\ UNCHANGED <<readyCallbacks, error>>
  /\ UNCHANGED <<pc, keywords, embeddings, clusteringVars, result, calls, distanceVars,
                 query, queryResponse, siteKey, grecaptcha, isReady, formVars,
                 actionVars>>

\* checkGrecaptcha, run again by its timer, finds the script loaded (while
\* the script is absent it only sets the timer again)
CheckGrecaptcha ==
  /\ effect = "polling"
  /\ grecaptcha = "loaded"
  /\ readyCallbacks' = readyCallbacks + 1
  /\ effect' = "ended"
  /\ UNCHANGED <<pc, keywords, embeddings, clusteringVars, result, calls, distanceVars,
                 query, queryResponse, siteKey, grecaptcha, isReady, error, formVars,
                 actionVars>>

\* the reCAPTCHA script finishes loading and defines window.grecaptcha
ScriptLoads ==
  /\ grecaptcha = "absent"
  /\ grecaptcha' = "loaded"
  /\ UNCHANGED <<pc, keywords, embeddings, clusteringVars, result, calls, distanceVars,
                 query, queryResponse, siteKey, effect, readyCallbacks, isReady, error,
                 formVars, actionVars>>

\* grecaptcha runs a callback given to grecaptcha.ready: setIsReady(true)
ReadyCallback ==
  /\ readyCallbacks > 0
  /\ readyCallbacks' = readyCallbacks - 1
  /\ isReady' = TRUE
  /\ UNCHANGED <<pc, keywords, embeddings, clusteringVars, result, calls, distanceVars,
                 query, queryResponse, siteKey, grecaptcha, effect, error, formVars,
                 actionVars>>

\* mutant: grecaptcha.execute is called without looking at isReady
executeRecaptcha_NoReadyCheck(action, cs) ==
  IF Missing(siteKey)
  THEN /\ error' = NOT_CONFIGURED
       /\ result' = ReturnValue(NULL)
       /\ calls' = cs
       /\ pc' = "executeDone"
  ELSE /\ calls' = Append(cs, [to |-> "grecaptcha.execute", outcome |-> "pending",
                               action |-> action])
       /\ result' = NoResult
       /\ pc' = "executing"
       /\ UNCHANGED error

\* executeRecaptcha(action) up to its await; cs are the calls made before
executeRecaptcha(action, cs) ==
  IF Missing(siteKey)
  THEN /\ error' = NOT_CONFIGURED
       /\ result' = ReturnValue(NULL)
       /\ calls' = cs
       /\ pc' = "executeDone"
  ELSE IF ~isReady
  THEN /\ error' = NOT_READY
       /\ result' = ReturnValue(NULL)
       /\ calls' = cs
       /\ pc' = "executeDone"
  ELSE /\ calls' = Append(cs, [to |-> "grecaptcha.execute", outcome |-> "pending",
                               action |-> action])
       /\ result' = NoResult
       /\ pc' = "executing"
       /\ UNCHANGED error

\* some component calls executeRecaptcha; calls keeps the calls of
\* grecaptcha.execute made since the component was mounted
ExecuteRecaptcha ==
  /\ pc \in {"idle", "executeDone"}
  /\ ~isLoading
  /\ Len(calls) < MaxExecutes
  /\ \E action \in RecaptchaActions : executeRecaptcha(action, calls)
  /\ UNCHANGED <<keywords, embeddings, clusteringVars, distanceVars, query,
                 queryResponse, siteKey, grecaptcha, effect, readyCallbacks, isReady,
                 formVars, actionVars>>

\* grecaptcha.execute resolves with a token
ExecuteResolves ==
  /\ pc = "executing"
  /\ \E token \in Tokens : result' = ReturnValue(token)
  /\ error' = NULL
  /\ calls' = Settle(calls, "resolved")
  /\ pc' = "executeDone"
  /\ UNCHANGED <<keywords, embeddings, clusteringVars, distanceVars, query,
                 queryResponse, siteKey, grecaptcha, effect, readyCallbacks, isReady,
                 formVars, actionVars>>

\* grecaptcha.execute rejects (or throws)
ExecuteRejects ==
  /\ pc = "executing"
  /\ \E err \in Rejections :
       error' = IF err.isError THEN err.message ELSE EXECUTION_FAILED
  /\ result' = ReturnValue(NULL)
  /\ calls' = Settle(calls, "rejected")
  /\ pc' = "executeDone"
  /\ UNCHANGED <<keywords, embeddings, clusteringVars, distanceVars, query,
                 queryResponse, siteKey, grecaptcha, effect, readyCallbacks, isReady,
                 formVars, actionVars>>

RecaptchaNext ==
  \/ RunEffect
  \/ CheckGrecaptcha
  \/ ScriptLoads
  \/ ReadyCallback
  \/ ExecuteRecaptcha
  \/ ExecuteResolves
  \/ ExecuteRejects

RecaptchaSpec == RecaptchaInit /\ [][RecaptchaNext]_vars

\* ================================================= SearchFormWithRecaptcha
SPACE == " "
\* query.trim(), on the characters of the query
RECURSIVE TrimStart(_)
TrimStart(q) ==
  IF Len(q) > 0 /\ q[1] = SPACE THEN TrimStart(Tail(q)) ELSE q
RECURSIVE TrimEnd(_)
TrimEnd(q) ==
  IF Len(q) > 0 /\ q[Len(q)] = SPACE THEN TrimEnd(SubSeq(q, 1, Len(q) - 1)) ELSE q
Trim(q) == TrimEnd(TrimStart(q))

QUERY_REQUIRED == "Search query required"
VERIFICATION_FAILED == "Security verification failed"
SEARCH_FAILED == "Search failed"

\* the call onSearch(query, recaptchaToken)
OnSearch(q, token) ==
  [to |-> "onSearch", outcome |-> "pending", query |-> q, token |-> token]

\* the user edits the input (disabled while a search is loading)
SetQuery ==
  /\ pc \in {"idle", "submitDone"}
  /\ ~isLoading
  /\ \E q \in Queries \ {query} : query' = q
  /\ UNCHANGED <<pc, keywords, embeddings, clusteringVars, result, calls, distanceVars,
                 queryResponse, recaptchaVars, formVars, actionVars>>

\* handleSubmit up to its first await (or to its end, for a blank query)
HandleSubmit ==
  /\ pc \in {"idle", "submitDone"}
  /\ IF Trim(query) = << >>
     THEN /\ toasts' = <<QUERY_REQUIRED>>
          /\ calls' = << >>
          /\ pc' = "submitDone"
          /\ UNCHANGED <<isLoading, result, error>>
     ELSE /\ isLoading' = TRUE
          /\ toasts' = << >>
          /\ IF isReady
             THEN executeRecaptcha("search", << >>)
             ELSE /\ calls' = <<OnSearch(query, NULL)>>
                  /\ pc' = "searching"
                  /\ UNCHANGED <<result, error>>
  /\ UNCHANGED <<keywords, embeddings, clusteringVars, distanceVars, query,
                 queryResponse, siteKey, grecaptcha, effect, readyCallbacks, isReady,
                 actionVars>>

\* mutant: onSearch is called with whatever executeRecaptcha returned
SubmitGotToken_NoTokenTest ==
  /\ pc = "executeDone"
  /\ isLoading
  /\ calls' = Append(calls, OnSearch(query, result.value))
  /\ pc' = "searching"
  /\ UNCHANGED <<isLoading, toasts>>
  /\ UNCHANGED <<keywords, embeddings, clusteringVars, result, distanceVars, query,
                 queryResponse, recaptchaVars, actionVars>>

\* handleSubmit after `await executeRecaptcha('search')`
SubmitGotToken ==
  /\ pc = "executeDone"
  /\ isLoading
  /\ IF Missing(result.value)
     THEN /\ toasts' = <<VERIFICATION_FAILED>>
          /\ isLoading' = FALSE
          /\ pc' = "submitDone"
          /\ UNCHANGED calls
     ELSE /\ calls' = Append(calls, OnSearch(query, result.value))
          /\ pc' = "searching"
          /\ UNCHANGED <<isLoading, toasts>>
  /\ UNCHANGED <<keywords, embeddings, clusteringVars, result, distanceVars, query,
                 queryResponse, recaptchaVars, actionVars>>

\* onSearch resolves: the finally block
OnSearchResolves ==
  /\ pc = "searching"
  /\ calls' = Settle(calls, "resolved")
  /\ isLoading' = FALSE
  /\ pc' = "submitDone"
  /\ UNCHANGED <<keywords, embeddings, clusteringVars, result, distanceVars, query,
                 queryResponse, recaptchaVars, toasts, actionVars>>

\* onSearch rejects or throws: the catch block, then the finally block
OnSearchRejects ==
  /\ pc = "searching"
  /\ calls' = Settle(calls, "rejected")
  /\ toasts' = <<SEARCH_FAILED>>
  /\ isLoading' = FALSE
  /\ pc' = "submitDone"
  /\ UNCHANGED <<keywords, embeddings, clusteringVars, result, distanceVars, query,
                 queryResponse, recaptchaVars, actionVars>>

FormNext ==
  \/ RunEffect
  \/ CheckGrecaptcha
  \/ ScriptLoads
  \/ ReadyCallback
  \/ SetQuery
  \/ HandleSubmit
  \/ ExecuteResolves
  \/ ExecuteRejects
  \/ SubmitGotToken
  \/ OnSearchResolves
  \/ OnSearchRejects

FormSpec == RecaptchaInit /\ [][FormNext]_vars

\* the steps that let a submit go on once the promise it awaits has settled
SubmitStep ==
  ExecuteResolves \/ ExecuteRejects \/ SubmitGotToken \/ OnSearchResolves
    \/ OnSearchRejects

\* every promise a submit awaits is settled
FormLiveSpec == FormSpec /\ WF_vars(SubmitStep)

\* ============================================ the server actions of page.tsx
ServerActions ==
  {"searchSimilarKeywords", "performEnhancedSearch", "pineconeSemanticSearch",
   "serpAnalysis", "crawlUrlAction", "analyzeKeywords"}
\* the actions that call saveSearch before their fetch
SavingActions ==
  {"searchSimilarKeywords", "performEnhancedSearch", "pineconeSemanticSearch"}

NEWLINE == "\n"
URL == "https://a.b"
\* formData.get(name) for a field the form does not have
NoField == <<NULL>>
\* the values of the query / keyword / url / keywords field, as characters
\* (a word or a URL counts as one character)
FieldValues ==
  {NoField, << >>, <<SPACE, NEWLINE, SPACE>>, <<"seo">>, <<"seo", NEWLINE, "ai">>,
   <<URL>>}
UidValues == {NoField, << >>, <<"u1">>}

\* `!value` for what formData.get returned
MissingField(value) == value = NoField \/ value = << >>

\* `new URL(url)` does not throw
ValidUrl(value) == value = <<URL>>

\* keywordsStr.split('\n')
RECURSIVE SplitLines(_, _)
SplitLines(text, line) ==
  IF Len(text) = 0 THEN <<line>>
  ELSE IF text[1] = NEWLINE THEN <<line>> \o SplitLines(Tail(text), << >>)
  ELSE SplitLines(Tail(text), Append(line, text[1]))

\* .filter((kw) => kw.trim() !== '')
RECURSIVE NonBlank(_)
NonBlank(lines) ==
  IF Len(lines) = 0 THEN << >>
  ELSE IF Trim(lines[1]) = << >> THEN NonBlank(Tail(lines))
  ELSE <<lines[1]>> \o NonBlank(Tail(lines))

KeywordsOf(text) == NonBlank(SplitLines(text, << >>))

LOGIN_REQUIRED == "LOGIN_REQUIRED"
INVALID_URL == "Invalid URL format. Please enter a valid URL."
NO_KEYWORD_LINES == "Please enter at least one keyword."
CRAWLER_HINT == "Make sure AI Crawler is running on port 8001"

\* the error returned for a missing query / keyword / url / keywords field
NoInputMessage(name) ==
  CASE name = "searchSimilarKeywords" -> "No search query provided."
    [] name = "performEnhancedSearch" -> "No query provided."
    [] name = "pineconeSemanticSearch" -> "No query provided."
    [] name = "serpAnalysis" -> "No keyword provided."
    [] name = "crawlUrlAction" -> "No URL provided."
    [] name = "analyzeKeywords" -> "No keywords provided."

\* the text each catch block puts before error.message
ErrorPrefix(name) ==
  CASE name = "searchSimilarKeywords" -> "Failed to perform search: "
    [] name = "performEnhancedSearch" -> "Enhanced search failed: "
    [] name = "pineconeSemanticSearch" -> "Pinecone search failed: "
    [] name = "serpAnalysis" -> "SERP analysis failed: "
    [] name = "crawlUrlAction" -> "Crawl failed: "
    [] name = "analyzeKeywords" -> "Analysis Error: "

ErrorState(message) == ReturnValue([error |-> message])

\* the catch block of an action: crawlUrlAction replaces a missing message
Caught(name, message) ==
  ErrorState(<<ErrorPrefix(name),
               IF name = "crawlUrlAction" /\ message = "undefined"
               THEN CRAWLER_HINT ELSE message>>)

\* the bodies a response may carry: not JSON, the JSON null, an object
\* without a detail field, an object with one
Bodies == {"not json", "null", "object", "detail"}
Responses == [ok : BOOLEAN, body : Bodies]

\* mutant: the test of uid is left out
ActionStart_NoUidTest(name, input, uid) ==
  IF MissingField(input)
  THEN /\ result' = ErrorState(<<NoInputMessage(name)>>)
       /\ calls' = << >>
       /\ pc' = "actionDone"
  ELSE IF name = "crawlUrlAction" /\ ~ValidUrl(input)
  THEN /\ result' = ErrorState(<<INVALID_URL>>)
       /\ calls' = << >>
       /\ pc' = "actionDone"
  ELSE IF name = "analyzeKeywords" /\ Len(KeywordsOf(input)) = 0
  THEN /\ result' = ErrorState(<<NO_KEYWORD_LINES>>)
       /\ calls' = << >>
       /\ pc' = "actionDone"
  ELSE /\ result' = NoResult
       /\ calls' = (IF name \in SavingActions
                    THEN <<[to |-> "saveSearch", outcome |-> "resolved"]>>
                    ELSE << >>) \o <<Pending("fetch")>>
       /\ pc' = "fetching"

\* an action from its entry to its fetch
ActionStart(name, input, uid) ==
  IF MissingField(input)
  THEN /\ result' = ErrorState(<<NoInputMessage(name)>>)
       /\ calls' = << >>
       /\ pc' = "actionDone"
  ELSE IF MissingField(uid)
  THEN /\ result' = ErrorState(<<LOGIN_REQUIRED>>)
       /\ calls' = << >>
       /\ pc' = "actionDone"
  ELSE IF name = "crawlUrlAction" /\ ~ValidUrl(input)
  THEN /\ result' = ErrorState(<<INVALID_URL>>)
       /\ calls' = << >>
       /\ pc' = "actionDone"
  ELSE IF name = "analyzeKeywords" /\ Len(KeywordsOf(input)) = 0
  THEN /\ result' = ErrorState(<<NO_KEYWORD_LINES>>)
       /\ calls' = << >>
       /\ pc' = "actionDone"
  ELSE /\ result' = NoResult
       /\ calls' = (IF name \in SavingActions
                    THEN <<[to |-> "saveSearch", outcome |-> "resolved"]>>
                    ELSE << >>) \o <<Pending("fetch")>>
       /\ pc' = "fetching"

\* the form posts to one of the server actions
CallAction ==
  /\ pc = "idle"
  /\ \E name \in ServerActions, input \in FieldValues, uid \in UidValues :
       /\ serverAction' = name
       /\ formData' = [input |-> input, uid |-> uid]
       /\ ActionStart(name, input, uid)
  /\ UNCHANGED <<keywords, embeddings, clusteringVars, distanceVars, query,
                 queryResponse, recaptchaVars, formVars>>

\* fetch rejects: no connection, or the abort after the timeout
FetchFails ==
  /\ pc = "fetching"
  /\ calls' = Settle(calls, "rejected")
  /\ \E m \in ErrorMessages : result' = Caught(serverAction, m)
  /\ pc' = "actionDone"
  /\ UNCHANGED <<keywords, embeddings, clusteringVars, distanceVars, query,
                 queryResponse, recaptchaVars, formVars, actionVars>>

\* the message of what is thrown while a response is read
\*   !ok, crawlUrlAction: the detail, else the response text (lines 1299-1310)
\*   !ok, the others:     response.json() rejects, or reading .detail of null
\*                         throws, or the detail / the status text is thrown
\*   ok:                  response.json() rejects, or reading a field of null
\*                         throws
ThrownFor(name, resp) ==
  IF ~resp.ok
  THEN CASE resp.body = "detail" -> "detail"
         [] resp.body = "object" ->
              IF name = "analyzeKeywords" THEN "Clustering failed" ELSE "API Error: status"
         [] resp.body = "null" ->
              IF name = "crawlUrlAction" THEN "null" ELSE "TypeError"
         [] resp.body = "not json" ->
              IF name = "crawlUrlAction" THEN "not json" ELSE "SyntaxError"
  ELSE CASE resp.body = "null" -> "TypeError"
         [] resp.body = "not json" -> "SyntaxError"
         [] OTHER -> NULL

\* fetch resolves with a response, which is read
FetchAnswers ==
  /\ pc = "fetching"
  /\ \E resp \in Responses :
       /\ IF ThrownFor(serverAction, resp) # NULL
          THEN /\ result' = Caught(serverAction, ThrownFor(serverAction, resp))
               /\ calls' = [calls EXCEPT ![Len(calls)] =
                              [to |-> "fetch", outcome |-> "resolved", response |-> resp]]
          ELSE /\ result' = ReturnValue([data |-> serverAction])
               /\ calls' = [calls EXCEPT ![Len(calls)] =
                              [to |-> "fetch", outcome |-> "resolved", response |-> resp]]
                             \o (IF serverAction = "analyzeKeywords"
                                 THEN <<[to |-> "saveAnalysis", outcome |-> "resolved"]>>
                                 ELSE << >>)
  /\ pc' = "actionDone"
  /\ UNCHANGED <<keywords, embeddings, clusteringVars, distanceVars, query,
                 queryResponse, recaptchaVars, formVars, actionVars>>

ActionsNext ==
  \/ CallAction
  \/ FetchFails
  \/ FetchAnswers

ActionsSpec == Init /\ [][ActionsNext]_vars

\* ================================================================= claims
Done == pc = "done"
Returned == pc = "done" /\ outcome = "returned"
SameLength == Len(keywords) = Len(embeddings)

CountIn(list, x) == Cardinality({i \in DOMAIN list : list[i] = x})

\* occurrences of keyword x in the member lists of the returned mapping
ResultCount(x) ==
  SumOver(DOMAIN finalResults,
          [l \in DOMAIN finalResults |-> CountIn(finalResults[l], x)])

\* the returned member lists hold each keyword as often as the input does
CoversKeywordsOnce == \A x \in Keywords : ResultCount(x) = CountIn(keywords, x)

\* the labels given to the clusters are pairwise different
DistinctLabels ==
  \A c1, c2 \in DOMAIN clusterNames : c1 # c2 => clusterNames[c1] # clusterNames[c2]

\* C1 (as stated): for non-empty keywords, embeddings of the same length and
\* clusterCount >= 1, whatever the initializer and the naming calls do, the
\* member lists of the returned mapping together hold every input keyword
\* position exactly once.
C1_AsStated ==
  (Done /\ Len(keywords) > 0 /\ SameLength /\ clusterCount >= 1)
    => (outcome = "returned" /\ CoversKeywordsOnce)

\* C1 (amended): the same, for the naming outcomes that give the clusters
\* pairwise different labels.
C1_RoundTrip ==
  (Done /\ Len(keywords) > 0 /\ SameLength /\ clusterCount >= 1 /\ DistinctLabels)
    => (outcome = "returned" /\ CoversKeywordsOnce)

C1_Witness ==
  /\ Returned /\ Len(keywords) = 3 /\ SameLength /\ clusterCount = 2
  /\ Cardinality(DOMAIN finalResults) = 2
  /\ \E c \in DOMAIN generated : ~generated[c].ok
  /\ DistinctLabels /\ CoversKeywordsOnce

\* C2: with non-empty keywords, equally many embeddings and clusterCount = 1
\* the returned mapping has exactly one entry, whose member list is the
\* input keyword list itself (all keywords, in input order).
C2_SingleCluster ==
  (Done /\ Len(keywords) > 0 /\ SameLength /\ clusterCount = 1)
    => /\ outcome = "returned"
       /\ Cardinality(DOMAIN finalResults) = 1
       /\ \A l \in DOMAIN finalResults : finalResults[l] = keywords

C2_Witness ==
  /\ Returned /\ Len(keywords) = 3 /\ SameLength /\ clusterCount = 1
  /\ Cardinality({embeddings[i] : i \in DOMAIN embeddings}) = 3
  /\ \E l \in DOMAIN finalResults : finalResults[l] = keywords

DistinctKeywords ==
  \A i, j \in DOMAIN keywords : i # j => keywords[i] # keywords[j]
DistinctEmbeddings ==
  \A i, j \in DOMAIN embeddings : i # j => embeddings[i] # embeddings[j]
OneDimension ==
  \A i, j \in DOMAIN embeddings : Len(embeddings[i]) = Len(embeddings[j])

\* one cluster per keyword, one keyword per cluster, none lost or repeated
Singletons ==
  /\ Cardinality(DOMAIN finalResults) = Len(keywords)
  /\ \A l \in DOMAIN finalResults : Len(finalResults[l]) = 1
  /\ CoversKeywordsOnce

\* C3 (as stated): N >= 1 distinct keywords with N embeddings and
\* clusterCount >= N give exactly N clusters of one keyword each.
C3_AsStated ==
  (Done /\ Len(keywords) >= 1 /\ DistinctKeywords /\ SameLength
        /\ clusterCount >= Len(keywords))
    => (outcome = "returned" /\ Singletons)

\* C3 (amended): N >= 1 keywords with N pairwise different embeddings of one
\* dimension, clusterCount >= N and pairwise different labels give exactly N
\* clusters of one keyword each.  (Shown for every keyword list, with or
\* without repeated keywords.)
C3_Singletons ==
  (Done /\ Len(keywords) >= 1 /\ SameLength /\ clusterCount >= Len(keywords)
        /\ DistinctEmbeddings /\ OneDimension /\ DistinctLabels)
    => (outcome = "returned" /\ Singletons)

C3_Witness ==
  /\ Returned /\ Len(keywords) = 3 /\ SameLength /\ clusterCount = 3
  /\ DistinctEmbeddings /\ OneDimension /\ DistinctLabels
  /\ Cardinality(DOMAIN finalResults) = 3

\* C4: with a clusterCount the schema admits, the caller gets a mapping and
\* never an error: for empty inputs, lists of different lengths, embeddings of
\* different dimensions, too few distinct embeddings, emptied clusters and
\* failing naming calls.
C4_NeverRaises == (Done /\ clusterCount >= 1) => outcome = "returned"

\* C5: a call with clusterCount = 0 or a negative clusterCount returns the
\* empty mapping and raises nothing.
C5_NonPositiveCountReturnsEmpty ==
  (Done /\ clusterCount <= 0) => (outcome = "returned" /\ finalResults = EmptyMapping)

\* C6: non-empty keywords and embeddings of different lengths short-circuit
\* to the empty mapping: no K-Means, no naming call, no error.
C6_MismatchShortCircuits ==
  (Done /\ Len(keywords) > 0 /\ Len(embeddings) > 0 /\ ~SameLength /\ clusterCount >= 1)
    => /\ outcome = "returned" /\ finalResults = EmptyMapping
       /\ kmeansCalls = 0 /\ namingCalls = 0

FailedClusters == {c \in DOMAIN generated : ~generated[c].ok}
PositionOf(c) == CHOOSE n \in DOMAIN clusterOrder : clusterOrder[n] = c
\* a cluster later in the iteration order received the label of c too
RelabelledLater(c) ==
  \E c2 \in DOMAIN clusterNames :
    PositionOf(c2) > PositionOf(c) /\ clusterNames[c2] = clusterNames[c]

\* every cluster was named: by its own call, or by the fallback when that failed
NamedPerCluster ==
  /\ DOMAIN clusterNames = Range(clusterOrder)
  /\ namingCalls = Len(clusterOrder)
  /\ \A c \in Range(clusterOrder) :
       clusterNames[c] = IF generated[c].ok THEN RemoveQuotes(generated[c].text)
                         ELSE <<TOPIC, clusterResults[c][1]>>

\* C8 (as stated): when the naming call of one cluster fails, the cluster is
\* labelled "Topic: " + its first keyword, the other clusters keep their own
\* labels, naming goes on, and the returned mapping holds the failed
\* cluster's members.  (Stated for keywords and embeddings of one length.)
C8_AsStated ==
  (Done /\ SameLength /\ Cardinality(FailedClusters) = 1)
    => /\ outcome = "returned"
       /\ NamedPerCluster
       /\ \A c \in FailedClusters :
            /\ <<TOPIC, clusterResults[c][1]>> \in DOMAIN finalResults
            /\ finalResults[<<TOPIC, clusterResults[c][1]>>] = clusterResults[c]

\* C8 (amended): the same for any number of failing calls, the returned
\* mapping holding a failed cluster's members under its fallback label unless
\* a cluster named after it received that same label.
C8_FallbackIsolated ==
  (Done /\ FailedClusters # {})
    => /\ outcome = "returned"
       /\ NamedPerCluster
       /\ \A c \in FailedClusters :
            ~RelabelledLater(c) =>
              /\ <<TOPIC, clusterResults[c][1]>> \in DOMAIN finalResults
              /\ finalResults[<<TOPIC, clusterResults[c][1]>>] = clusterResults[c]

C8_Witness ==
  /\ Returned /\ Len(clusterOrder) = 2
  /\ FailedClusters = {clusterOrder[1]}
  /\ Len(clusterResults[clusterOrder[1]]) = 2
  /\ generated[clusterOrder[2]].ok
  /\ Cardinality(DOMAIN finalResults) = 2

\* C9: the returned mapping has one entry per label in use, and the entry of
\* a label shared by several clusters holds the members of the one that comes
\* last in the iteration order of the clusters.
C9_LastWriteWins ==
  Returned
    => /\ DOMAIN finalResults = {clusterNames[c] : c \in DOMAIN clusterNames}
       /\ \A c \in DOMAIN clusterNames :
            ~RelabelledLater(c) => finalResults[clusterNames[c]] = clusterResults[c]

C9_Witness ==
  /\ Returned /\ Len(clusterOrder) = 2
  /\ clusterNames[clusterOrder[1]] = clusterNames[clusterOrder[2]]
  /\ clusterResults[clusterOrder[1]] # clusterResults[clusterOrder[2]]
  /\ Cardinality(DOMAIN finalResults) = 1

\* C10: a keyword whose embedding the provider failed to deliver is left out
\* of the clustering and appears in no cluster of the returned mapping.
C10_FailedKeywordExcluded ==
  (Returned /\ Len(keywords) >= 2 /\ Cardinality(providerFailed) = 1)
    => \A i \in providerFailed :
         CountIn(keywords, keywords[i]) = 1
           => \A l \in DOMAIN finalResults : CountIn(finalResults[l], keywords[i]) = 0

\* the member sets of the returned mapping
ReturnedGroups == {Range(finalResults[l]) : l \in DOMAIN finalResults}

\* C11: for the four keywords whose embeddings form two well-separated pairs
\* and clusterCount = 2, whatever initial centroids the initializer picks
\* (and with the clusters labelled differently), the returned mapping has
\* exactly two clusters, whose memberships are the two pairs.
C11_PairsFound ==
  (Done /\ keywords = PairKeywords /\ embeddings \in PairLayouts
        /\ clusterCount = 2 /\ DistinctLabels)
    => /\ outcome = "returned"
       /\ Cardinality(DOMAIN finalResults) = 2
       /\ ReturnedGroups = {{"p1", "p2"}, {"l1", "l2"}}

\* C12: N embeddings of one dimension holding at least k different vectors,
\* 1 <= k <= N, and clusterCount = k: the keywords are partitioned into
\* exactly k non-empty groups (k clusters are named, and the returned mapping
\* holds k member lists when the labels differ), whatever the initializer and
\* the re-seeding pick.
C12_ExactlyKGroups ==
  (Done /\ SameLength /\ OneDimension
        /\ 1 <= clusterCount /\ clusterCount <= Len(keywords)
        /\ Cardinality(Range(embeddings)) >= clusterCount)
    => /\ outcome = "returned"
       /\ Len(clusterOrder) = clusterCount
       /\ \A c \in Range(clusterOrder) : Len(clusterResults[c]) > 0
       /\ DistinctLabels => Cardinality(DOMAIN finalResults) = clusterCount

\* C13: a returned mapping has at most min(clusterCount, number of keywords)
\* entries, each with a non-empty member list, and a naming call is only ever
\* issued (and answered) for a cluster that has members.
C13_ClampedNonEmpty ==
  /\ Returned =>
       /\ Cardinality(DOMAIN finalResults) <= Min(clusterCount, Len(keywords))
       /\ \A l \in DOMAIN finalResults : Len(finalResults[l]) > 0
  /\ pc = "nameWait" => Len(clusterResults[clusterOrder[nameIdx]]) > 0
  /\ \A c \in DOMAIN generated : Len(clusterResults[c]) > 0

C13_Witness ==
  /\ Returned /\ Len(keywords) = 3 /\ SameLength /\ clusterCount = 2
  /\ DistinctEmbeddings
  /\ Cardinality(DOMAIN finalResults) = 2 /\ namingCalls = 2

\* C16: kmeans terminates on every input: its loop runs at most 100 Assign
\* steps (maxIterations), also when every Update re-seeds, and it has
\* returned once the 100th round is over.
C16_AtMostMaxIterations ==
  /\ assignSteps <= maxIterations
  /\ iter <= assignSteps
  /\ pc = "assign" => assignSteps < maxIterations
  /\ pc = "update" => iter < maxIterations

C16_Witness ==
  /\ pc = "group" /\ assignSteps = maxIterations /\ iter = maxIterations
  /\ \E c \in 0..(k - 1) : MembersOf(assignments, c) = {}

\* distance of point i to centroid j (centroids[j] is cluster j - 1)
DistanceTo(i, j) == euclideanDistance(Point(embeddings[i]), centroids[j])

\* every point is assigned to a centroid none is nearer than (and to one at a
\* finite distance when there is one), with no centroid of a lower index at
\* the same distance
LowestNearest ==
  \A i \in DOMAIN embeddings :
    /\ assignments[i] \in 0..(Len(centroids) - 1)
    /\ \A j \in DOMAIN centroids :
         /\ ~LessThan(DistanceTo(i, j), DistanceTo(i, assignments[i] + 1))
         /\ DistanceTo(i, j).kind = "fin" => DistanceTo(i, assignments[i] + 1).kind = "fin"
         /\ j < assignments[i] + 1
              => ~SameDistance(DistanceTo(i, j), DistanceTo(i, assignments[i] + 1))

\* C17: an Update only ever follows an Assign that changed at least one
\* assignment; an Assign that changes nothing is followed by no Update:
\* kmeans returns the assignment as it is, with the centroids untouched, so
\* every point is with its lowest-index nearest centroid of the centroids
\* current at the return.
C17_UpdateOnlyAfterChange ==
  [][/\ (pc' = "update" /\ pc # "update")
          => (pc = "assign" /\ assignments' # assignments)
     /\ (pc = "assign" /\ pc' # "assign" /\ assignments' = assignments)
          => (pc' = "group" /\ centroids' = centroids /\ iter' = iter /\ LowestNearest')]_vars

\* an Assign that changed nothing, after at least one Update
C17_Witness ==
  /\ pc = "group" /\ iter >= 2 /\ assignSteps = iter + 1
  /\ Len(embeddings) = 5 /\ k = 3 /\ OneDimension

\* the last step of the loop was an Assign: one more Assign than Updates
JustAssigned == pc \in {"update", "group"} /\ k > 0 /\ assignSteps = iter + 1

\* C18: after every Assign step each point is assigned to a centroid at
\* minimal distance from it, the one of the lowest index when several
\* centroids are at that distance.
C18_AssignPicksLowestNearest == JustAssigned => LowestNearest

\* a point at the same distance from two centroids went to the first
C18_Witness ==
  /\ pc = "update" /\ OneDimension
  /\ \E i \in DOMAIN embeddings :
       /\ assignments[i] = 0
       /\ DistanceTo(i, 1).kind = "fin" /\ DistanceTo(i, 1).num > 0
       /\ SameDistance(DistanceTo(i, 1), DistanceTo(i, 2))

\* v is the coordinate-wise mean of the points in members: they have one
\* length, v has it too, and v[d] * |members| is the sum of their d-th
\* coordinates
IsMeanOf(v, members) ==
  /\ members # {}
  /\ v.nan = {}
  /\ \A i \in members : Len(embeddings[i]) = Len(v.num)
  /\ \A d \in DOMAIN v.num :
       v.num[d] * Cardinality(members)
         = v.den * SumOver(members, [i \in members |-> embeddings[i][d]])

\* the centroids are what an Update makes of the current assignment
MeansAndSeeds ==
  /\ Len(centroids) = k
  /\ \A c \in 0..(k - 1) :
       IF MembersOf(assignments, c) # {}
       THEN IsMeanOf(centroids[c + 1], MembersOf(assignments, c))
       ELSE \E i \in DOMAIN embeddings : centroids[c + 1] = Point(embeddings[i])

\* C19 (as stated): after every Update the centroid list has exactly k
\* entries, the centroid of a non-empty cluster is the coordinate-wise mean of
\* its points and the centroid of an empty cluster is one of the input
\* embeddings.
C19_AsStated ==
  [][(pc = "update" /\ pc' # "update") => MeansAndSeeds']_vars

\* C19 (amended): the same, for input embeddings that all have one dimension.
C19_MeansAndSeeds ==
  [][(pc = "update" /\ pc' # "update" /\ OneDimension) => MeansAndSeeds']_vars

\* after an Update that averaged one cluster and re-seeded another
C19_Witness ==
  /\ pc = "assign" /\ iter >= 1 /\ OneDimension /\ k = 3
  /\ \E c \in 0..(k - 1) : Cardinality(MembersOf(assignments, c)) >= 2
  /\ \E c \in 0..(k - 1) : MembersOf(assignments, c) = {}
  /\ MeansAndSeeds

\* sqrt(num / den) < 1e-4  <=>  num * T * T < den
\*                         <=>  num <= ((den - 1) \div T) \div T
WithinTolerance(x) ==
  x.kind = "fin" /\ x.num <= ((x.den - 1) \div ToleranceInverse) \div ToleranceInverse

NoClusterEmpty == \A c \in 0..(k - 1) : MembersOf(assignments, c) # {}

\* C20: after an Update in which every cluster was non-empty and every
\* centroid moved by less than 1e-4, kmeans returns without another Assign;
\* after an Update that re-seeded an empty cluster kmeans does not return at
\* that point but runs another Assign, unless that was the last round the
\* iteration limit allows.
C20_ExitAfterUpdate ==
  [][(pc = "update" /\ pc' # "update")
       => /\ (NoClusterEmpty
               /\ \A j \in 1..k : WithinTolerance(euclideanDistance(centroids'[j], centroids[j])))
             => (pc' = "group" /\ assignments' = assignments)
          /\ ~NoClusterEmpty
             => /\ iter' = iter + 1
                /\ pc' = IF iter' >= maxIterations THEN "group" ELSE "assign"]_vars

\* a round that re-seeded an empty cluster and went on to another Assign
C20_Witness ==
  /\ pc = "assign" /\ iter >= 1 /\ iter < maxIterations
  /\ ~NoClusterEmpty
  /\ \E c \in 0..(k - 1) :
       MembersOf(assignments, c) = {} /\ centroids[c + 1] = Point(embeddings[1])

\* the synchronous code of the invocation runs whenever it can; the naming
\* service is not assumed to answer
ProgramStep ==
  FlowEntry \/ KmeansEntry \/ Assign \/ Update \/ Group \/ NameCall
NamingCompletes == NameReturn \/ NameFail

LiveSpec == PointsSpec /\ WF_vars(ProgramStep)

\* C15: if every naming call eventually completes (with a label or by
\* failing), an invocation of clusterKeywordsByIntent eventually comes back
\* to its caller (with its mapping, or with the error of a rejected input);
\* it waits nowhere but for a naming call; and a naming call is started only
\* when every naming call started before it has completed or failed.
C15_ReturnsIfNamingCompletes ==
  /\ WF_vars(NamingCompletes) => (pc = "flow" ~> pc = "done")
  /\ [](pc \in {"flow", "kmeans", "assign", "update", "group", "nameCall"}
          => ENABLED <<ProgramStep>>_vars)
  /\ [](namingCalls - Cardinality(DOMAIN generated)
          = IF pc = "nameWait" THEN 1 ELSE 0)
  /\ [][namingCalls' # namingCalls
          => /\ namingCalls = Cardinality(DOMAIN generated)
             /\ \A n \in 1..(nameIdx - 1) : clusterOrder[n] \in DOMAIN generated]_vars

\* the second naming call has been answered and the mapping returned
C15_Witness ==
  /\ Returned /\ namingCalls = 2 /\ Cardinality(DOMAIN generated) = 2
  /\ \E c \in DOMAIN generated : ~generated[c].ok

\* the mapping an invocation builds, by itself, from the keywords, the
\* assignment its kmeans returned and the answers to its naming calls
AloneResult(asg, gen) ==
  LET order == GroupOrder(asg, Len(asg))
      results == [c \in Range(order) |-> GroupMembers(asg, c, Len(asg))]
      names == [c \in Range(order) |->
                  IF gen[c].ok THEN RemoveQuotes(gen[c].text)
                  ELSE <<TOPIC, results[c][1]>>]
  IN BuildFinal(order, names, results, Len(order))

ReturnedAlone(x) ==
  (x.pc = "done" /\ x.outcome = "returned")
    => x.finalResults = AloneResult(x.assignments, x.generated)

\* C14: two invocations interleaved at their naming calls do not affect each
\* other: each returns the mapping it builds from its own random choices and
\* naming outcomes, a step of one leaves the locals of the other as they are,
\* and the keywords and embeddings arrays are never written.
C14_NoInterference ==
  /\ [](ReturnedAlone(Current) /\ ReturnedAlone(other))
  /\ [][pc # "idle" => (keywords' = keywords /\ embeddings' = embeddings)]_vars
  /\ [][(pc # "idle" /\ other' # other) => (other' = Current /\ Current' = other)]_vars

\* one invocation has returned two clusters while the other, asked for one
\* cluster, is still waiting for its naming call
C14_Witness ==
  /\ Returned /\ Cardinality(DOMAIN finalResults) = 2 /\ clusterCount = 2
  /\ other.pc = "nameWait" /\ other.clusterCount = 1 /\ other.namingCalls = 1
  /\ other.clusterResults = (0 :> keywords)

\* kmeans is past its early returns (in KmeansSpec clusterCount is the
\* argument k of the call)
InKmeans == pc \in {"assign", "update", "group", "kmeansReturned"}

\* C21: for a call kmeans(embeddings, k) with N >= k >= 1 embeddings, the
\* assignment has length N and every entry is an integer in 0..k'-1, with
\* k' = min(k, number of distinct embeddings) the effective cluster count;
\* this holds before and after every Assign step and at the return.
C21_AssignmentsInRange ==
  (InKmeans /\ Len(embeddings) >= clusterCount /\ clusterCount >= 1)
    => /\ Len(assignments) = Len(embeddings)
       /\ k = Min(clusterCount, Cardinality(Range(embeddings)))
       /\ \A i \in DOMAIN assignments : assignments[i] \in 0..(k - 1)

\* three embeddings, two of them different, k = 3: both clusters in use
C21_Witness ==
  /\ pc = "kmeansReturned" /\ clusterCount = 3 /\ Len(embeddings) = 3
  /\ Cardinality(Range(embeddings)) = 2 /\ k = 2 /\ assignSteps >= 2
  /\ Range(assignments) = {0, 1}

\* C22: kmeans returns without any Assign or Update step in the degenerate
\* cases: the empty assignment for zero embeddings or k = 0, and the identity
\* assignment (point i in cluster i) for fewer embeddings than k.
C22_DegenerateReturns ==
  /\ (pc # "idle" /\ (Len(embeddings) = 0 \/ clusterCount = 0))
       => /\ pc \in {"group", "kmeansReturned"}
          /\ assignments = << >>
          /\ assignSteps = 0 /\ iter = 0
  /\ (pc # "idle" /\ Len(embeddings) > 0 /\ clusterCount > 0
        /\ Len(embeddings) < clusterCount)
       => /\ pc \in {"group", "kmeansReturned"}
          /\ assignments = [i \in 1..Len(embeddings) |-> i - 1]
          /\ assignSteps = 0 /\ iter = 0

C22_Witness ==
  /\ pc = "kmeansReturned" /\ Len(embeddings) = 2 /\ clusterCount = 3
  /\ assignments = <<0, 1>> /\ kmeansCalls = 1

\* C23: initializeCentroids(embeddings, k) returns exactly min(k, number of
\* distinct embeddings) centroids, pairwise different, each of them one of
\* the input embeddings, also when fewer than k distinct embeddings exist
\* (seen where kmeans has just stored its result as the initial centroids).
C23_InitialCentroids ==
  (pc = "assign" /\ assignSteps = 0)
    => /\ Len(centroids) = Min(clusterCount, Cardinality(Range(embeddings)))
       /\ \A i, j \in DOMAIN centroids : i # j => centroids[i] # centroids[j]
       /\ \A j \in DOMAIN centroids :
            \E i \in DOMAIN embeddings : centroids[j] = Point(embeddings[i])

C23_Witness ==
  /\ pc = "assign" /\ assignSteps = 0 /\ clusterCount = 3
  /\ Len(embeddings) = 3 /\ Cardinality(Range(embeddings)) = 2
  /\ Len(centroids) = 2

\* C25: euclideanDistance gives Infinity for two embeddings of different
\* length, and an Assign step never assigns a point to a centroid whose
\* length differs from the point's.
C25_MismatchNeverChosen ==
  JustAssigned
    => \A i \in DOMAIN embeddings :
         /\ \A j \in DOMAIN centroids :
              Len(centroids[j].num) # Len(embeddings[i]) => DistanceTo(i, j) = Infinity
         /\ Len(centroids[assignments[i] + 1].num) = Len(embeddings[i])

\* the distance is zero
IsZero(d) == d.kind = "fin" /\ d.num = 0

\* C24: for all embeddings a and b of equal length, euclideanDistance(a, a)
\* is 0, euclideanDistance(a, b) equals euclideanDistance(b, a), the result
\* is a non-negative number, and it is 0 only if a and b are identical.
C24_DistanceAxioms ==
  (pc = "measured" /\ Len(vecA) = Len(vecB))
    => /\ IsZero(result.value.aa) /\ IsZero(result.value.bb)
       /\ result.value.ab = result.value.ba
       /\ result.value.ab.kind = "fin"
       /\ result.value.ab.num >= 0 /\ result.value.ab.den > 0
       /\ IsZero(result.value.ab) => vecA = vecB

\* two different vectors of the plane whose differences have both signs
C24_Witness ==
  /\ pc = "measured" /\ vecA = <<-2, 3>> /\ vecB = <<1, 0>>
  /\ result.value.ab = Finite(18, 1)

InUpsert == pc \in {"upsertEmbedding", "upsertIndex", "upsertDone"}
SomeCallRejected == \E i \in DOMAIN calls : calls[i].outcome = "rejected"

\* C26: upsertKeywordsToVectorDatabase never raises: a failure of the
\* embedding provider or of the index upsert yields {success: false, error};
\* an empty keyword list yields {success: true, upsertedCount: 0} without a
\* call to the provider or the index; index.upsert is never issued when the
\* number of embeddings differs from the number of keywords; on success
\* upsertedCount is the number of keywords.
C26_UpsertNeverRaises ==
  InUpsert
    => /\ result.kind # "raised"
       /\ pc = "upsertDone" => result.kind = "returned"
       /\ (pc = "upsertDone" /\ SomeCallRejected)
            => /\ result.value.success = FALSE
               /\ DOMAIN result.value = {"success", "error"}
       /\ Len(keywords) = 0
            => /\ pc = "upsertDone" /\ calls = << >>
               /\ result.value = [success |-> TRUE, upsertedCount |-> 0]
       /\ "index.upsert" \in Callees(calls) => Len(embeddings) = Len(keywords)
       /\ (pc = "upsertDone" /\ Len(embeddings) # Len(keywords) /\ Len(keywords) > 0)
            => result.value.success = FALSE
       /\ (pc = "upsertDone" /\ result.value.success)
            => result.value.upsertedCount = Len(keywords)

\* the provider came back with fewer embeddings than keywords
C26_Witness ==
  /\ pc = "upsertDone" /\ Len(keywords) = 2 /\ Len(embeddings) = 1
  /\ Callees(calls) = {"generateKeywordEmbeddings"}
  /\ result.value = [success |-> FALSE, error |-> <<UPSERT_PREFIX, UPSERT_MISMATCH>>]

InQuery == pc \in {"queryEmbedding", "queryIndex", "queryDone"}

\* C27: queryVectorDatabaseSemantically generates the query embedding before
\* it queries the index and never queries the index when that embedding is
\* missing or empty; every failure (embedding or index) reaches the caller
\* as an Error whose message starts with "Failed to query vector database: ";
\* a successful call returns one string per match, in match order.
C27_QueryEmbedsFirst ==
  InQuery
    => /\ calls[1].to = "generateKeywordEmbeddings"
       /\ "index.query" \in Callees(calls)
            => /\ calls[1].outcome = "resolved"
               /\ Len(embeddings) > 0 /\ embeddings[1] # << >>
       /\ (pc = "queryDone"
             /\ (SomeCallRejected \/ Len(embeddings) = 0 \/ embeddings[1] = << >>))
            => result.kind = "raised"
       /\ result.kind = "raised" => result.message[1] = QUERY_PREFIX
       /\ (pc = "queryDone" /\ result.kind = "returned")
            => /\ Len(result.value.matches) = Len(queryResponse.matches)
               /\ \A i \in DOMAIN result.value.matches :
                    result.value.matches[i] = MatchText(queryResponse.matches[i])

\* two matches, the first one without metadata
C27_Witness ==
  /\ pc = "queryDone" /\ result.kind = "returned"
  /\ queryResponse.hasMatches /\ queryResponse.matches = <<NO_METADATA, "b">>
  /\ result.value.matches = <<"", "b">>
  /\ Callees(calls) = {"generateKeywordEmbeddings", "index.query"}

ExecuteCalled == "grecaptcha.execute" \in Callees(calls)

\* what holds of useRecaptcha in every state
RecaptchaGuarded ==
  /\ ExecuteCalled => (~Missing(siteKey) /\ isReady)
  /\ isReady => (~Missing(siteKey) /\ grecaptcha = "loaded")
  /\ result.kind # "raised"
  /\ (pc = "executeDone" /\ (Missing(siteKey) \/ ~isReady))
       => /\ ~ExecuteCalled
          /\ result = ReturnValue(NULL)
          /\ error \in {NOT_CONFIGURED, NOT_READY}
  /\ (pc = "executeDone" /\ ExecuteCalled /\ calls[Len(calls)].outcome = "rejected")
       => /\ result = ReturnValue(NULL)
          /\ error # NULL
  /\ (pc = "executeDone" /\ ExecuteCalled /\ calls[Len(calls)].outcome = "resolved")
       => /\ result.value \in Tokens
          /\ error = NULL

\* isReady stays true, and turns true only in a step that runs a callback
\* given to grecaptcha.ready
ReadyOnlyThroughCallback ==
  /\ isReady => isReady'
  /\ (~isReady /\ isReady') => readyCallbacks' = readyCallbacks - 1

\* C28: in useRecaptcha, grecaptcha.execute is never called unless a site key
\* is configured and isReady is true (otherwise executeRecaptcha returns null
\* and sets an error); isReady starts false, becomes true only through the
\* grecaptcha.ready callback and never returns to false; executeRecaptcha
\* never rejects: a failure of execute yields null with the error recorded,
\* a success clears the error.
C28_ExecuteOnlyWhenReady ==
  /\ ~isReady
  /\ []RecaptchaGuarded
  /\ [][ReadyOnlyThroughCallback]_vars

\* a call made when the hook was ready, answered with a token
C28_Witness ==
  /\ pc = "executeDone" /\ isReady /\ ExecuteCalled
  /\ calls[Len(calls)].outcome = "resolved"
  /\ result = ReturnValue("token") /\ error = NULL

SearchCalls == {i \in DOMAIN calls : calls[i].to = "onSearch"}

\* what holds of the form in every state
SubmitGuarded ==
  /\ \A i \in SearchCalls : Trim(calls[i].query) # << >>
  /\ toasts = <<QUERY_REQUIRED>> => calls = << >>
  /\ \A i \in SearchCalls :
       IF i = 1
       THEN calls[i].token = NULL
       ELSE /\ calls[i - 1].to = "grecaptcha.execute"
            /\ calls[i - 1].outcome = "resolved"
            /\ calls[i].token = "token"
  /\ (ExecuteCalled /\ pc \in {"searching", "submitDone"}
        /\ (calls[1].outcome = "rejected" \/ Missing(result.value)))
       => SearchCalls = {}
  /\ (pc \in {"searching", "submitDone"} /\ toasts # <<QUERY_REQUIRED>>
        /\ ~ExecuteCalled)
       => (Len(calls) = 1 /\ SearchCalls = {1})
  /\ pc = "searching" => calls[Len(calls)] = OnSearch(query, calls[Len(calls)].token)
  /\ pc = "submitDone" => ~isLoading
  /\ isLoading => pc \in {"executing", "executeDone", "searching"}

\* C29: in handleSubmit, onSearch is never invoked for a blank query and
\* never invoked when reCAPTCHA is ready but returns no token; when reCAPTCHA
\* is not ready, onSearch is invoked with a null token; and isLoading is
\* false again after every submit that set it to true (success, the early
\* return on a missing token, or an error thrown from onSearch), provided
\* the promises the submit awaits are settled.
C29_SubmitRestoresLoading ==
  /\ []SubmitGuarded
  /\ (isLoading ~> ~isLoading)

\* a submit with a token whose onSearch threw
C29_Witness ==
  /\ pc = "submitDone" /\ ~isLoading /\ toasts = <<SEARCH_FAILED>>
  /\ Len(calls) = 2 /\ calls[1].to = "grecaptcha.execute"
  /\ calls[2] = [to |-> "onSearch", outcome |-> "rejected", query |-> <<" ", "s", " ">>,
                 token |-> "token"]

InAction == pc \in {"fetching", "actionDone"}
FetchCalls == {i \in DOMAIN calls : calls[i].to = "fetch"}
\* the backend did not answer, or answered with an error status or with a
\* body the action cannot read
BackendFailed ==
  \E i \in FetchCalls :
    \/ calls[i].outcome = "rejected"
    \/ /\ calls[i].outcome = "resolved"
       /\ (~calls[i].response.ok \/ calls[i].response.body \in {"not json", "null"})

\* C30: the server actions never raise and never contact the backend for a
\* request without a user id: a missing query / keyword / url yields the
\* action's 'no input' error first, then a missing uid yields
\* {error: 'LOGIN_REQUIRED'}, both without a fetch or a history save; a
\* failure of the backend or the network after that is returned as an error
\* state.
C30_ActionsNeverRaise ==
  InAction
    => /\ result.kind # "raised"
       /\ pc = "actionDone" => result.kind = "returned"
       /\ (pc = "actionDone" /\ MissingField(formData.input))
            => /\ result = ErrorState(<<NoInputMessage(serverAction)>>)
               /\ calls = << >>
       /\ (pc = "actionDone" /\ ~MissingField(formData.input)
             /\ MissingField(formData.uid))
            => /\ result = ErrorState(<<LOGIN_REQUIRED>>)
               /\ calls = << >>
       /\ calls # << >>
            => (~MissingField(formData.uid) /\ ~MissingField(formData.input))
       /\ (pc = "actionDone" /\ BackendFailed)
            => /\ DOMAIN result.value = {"error"}
               /\ result.value.error[1] = ErrorPrefix(serverAction)

\* the backend answers an analysis with an error status and a detail
C30_Witness ==
  /\ pc = "actionDone" /\ serverAction = "analyzeKeywords"
  /\ formData = [input |-> <<"seo", NEWLINE, "ai">>, uid |-> <<"u1">>]
  /\ Len(calls) = 1 /\ calls[1].outcome = "resolved" /\ ~calls[1].response.ok
  /\ result = ErrorState(<<"Analysis Error: ", "detail">>)

====
